---- MODULE Spec2Model ----
(***************************************************************************)
(* A model of the advice / pointcut / weaver kernel of ornorm/spectral.    *)
(*                                                                         *)
(* Part 1 models the five advice decorators of advice.ts (Before, After,   *)
(* AfterReturning, AfterThrowing, Around), the parameter-name discovery of *)
(* params.ts and the advisor lookup, as a state machine over one or more   *)
(* aspect classes: decorators are applied to (prototype, key, descriptor), *)
(* the host defines the returned descriptor on the prototype, and methods  *)
(* are called.  A call is evaluated in one step by the recursive operator  *)
(* Exec, which returns the trace of the call and its outcome.              *)
(***************************************************************************)
EXTENDS Integers, Sequences, FiniteSets, TLC

\* ------------------------------------------------------------------ bounds
\* At most MaxDecor decorator applications are made in one behaviour.
MaxDecor == 2

\* At most MaxAdvisedDecor of them on a class that carries advisors.
MaxAdvisedDecor == 1

\* The call stack limit.  An acyclic chain of wrappers nests at most two
\* frames per wrapper (the advice, then the proceed thunk), so a deeper
\* nesting is an unbounded recursion and ends as the host's RangeError.
MaxDepth == 2 * MaxDecor + 2

\* ----------------------------------------------------------------- fixture
\* A and B are aspect classes that extend a base class, C is an aspect class
\* without a superclass, T is a business class.
Classes == {"A", "B", "C", "T"}

\* The superclass of a class among the classes above ("" when it has none
\* there): aspect B extends aspect A.
Superclass(c) == IF c = "B" THEN "A" ELSE ""
Keys == {"m", "n"}
Kinds == {"before", "after", "afterReturning", "afterThrowing", "around"}
Pointcuts == {"P", "Q"}

\* The classes the decorators are applied to directly (Part 1).
AdviceClasses == {"A"}

\* Function.length of the methods as declared: m() and n(a, b).
DeclaredLength(k) == IF k = "m" THEN 0 ELSE 2

\* The argNames strings a decorator is given.  A comma separated string is
\* represented by the sequence of its pieces; the empty string and an
\* absent argument are both <<>> (both are falsy in `argNames ? ... : ...`).
ArgNameStrings == { <<>>, <<"a", "joinPoint", "result", "error">> }

\* ------------------------------------------------------------------ values
Val(t, n, s, o, a) == [t |-> t, n |-> n, s |-> s, o |-> o, a |-> a]
Undef == Val("undefined", 0, "", "", <<>>)
Num(n) == Val("number", n, "", "", <<>>)
Err(name) == Val("error", 0, name, "", <<>>)

\* new JoinPoint(this, propertyKey, args): the receiver's class, the method
\* name and the actual arguments.
JoinPoint(c, k, args) == Val("joinPoint", 0, k, c, args)

\* () => originalMethod.apply(this, args), made by wrapper wid in a frame
\* running in the given role.
Thunk(wid, role, args) == Val("thunk", wid, role, "", args)

Ret(v) == [k |-> "ret", v |-> v]
Throw(v) == [k |-> "throw", v |-> v]
NoOut == [k |-> "none", v |-> Undef]

\* A function value: a declared method body (w = 0) or the wrapper number w.
BaseFn(c, k) == [w |-> 0, c |-> c, k |-> k]
WrapFn(w, c, k) == [w |-> w, c |-> c, k |-> k]

NoCall == [called |-> FALSE, fn |-> BaseFn("A", "m"), args |-> <<>>,
           env |-> [orig |-> "ret", adv |-> "ret"], log |-> <<>>, out |-> NoOut]

\* ------------------------------------------------------------------- state
VARIABLES
    wrappers,      \* the wrapper closures created so far, by number
    bucket,        \* Reflect metadata <kind> on each class: the advice registry
    proto,         \* prototype[key] of each class
    desc,          \* descriptor.value of the descriptor the host is decorating
    argNamesMeta,  \* Reflect metadata 'argNames' of the methods
    paramTypes,    \* Reflect metadata 'design:paramtypes' of the methods
    advisors,      \* Reflect metadata 'advisors' of the classes
    lastCall,      \* the most recent call: its trace and outcome
    pointcuts,     \* Weaver.pointcuts: id -> expression ("" when not registered)
    flags,         \* Weaver.useCglib / useAspectJ / frozen / exposeProxy
    proxies,       \* Weaver.proxies
    boot,          \* the progress of the running Weaver.boot
    completion,    \* the state of the promise Weaver.boot returned
    processed,     \* the aspects the running boot has handled, in order
    boots,         \* the number of boots started
    firstBoot,     \* what the first boot had left when dispose was first called
    disposed,      \* the factories Weaver.dispose has taken out of the live set
    factory,       \* a ProxyFactory of its own: its fields
    handles,       \* the objects the `proxy` accessor of the factory returned
    lastOp,        \* the last operation on the factory or a handle, its outcome
    pcExpression,  \* the pointcut expression handed to parse, as its words
    registry,      \* PointcutExpressionParser.pointcutMethods
    parses,        \* the parses of the expression so far: registry seen, outcome
    evals,         \* the evaluations of the predicate the last parse returned
    selector,      \* a PointcutSelector: its expression and isStaticPointcut
    lastMatch,     \* the last filter / matches call on the selector
    regexpPointcut,  \* new RegexpMethodPointcut(patterns): patterns, outcome
    lastRegexpMatch, \* the last matches call on the RegexpMethodPointcut
    lastNames,     \* the last getParameterNames call and its outcome
    advisor,       \* an Advisor of its own: its parts and its `executed` flag
    lastExecute,   \* the last execute call on that Advisor
    adviceCall,    \* one firing of an advice record: its inputs, the array built
    frame          \* one activation of a Before wrapper, advice by advice

adviceVars == <<wrappers, bucket, proto, desc, argNamesMeta, paramTypes, advisors>>
weaverVars == <<pointcuts, flags, proxies, boot, completion, processed, boots, firstBoot>>
factoryVars == <<factory, handles, lastOp>>
parserVars == <<pcExpression, registry, parses, evals>>
selectorVars == <<selector, lastMatch>>
regexpVars == <<regexpPointcut, lastRegexpMatch>>
advisorVars == <<advisor, lastExecute>>
factoryRest == <<adviceVars, lastCall, weaverVars, disposed, parserVars, selectorVars,
                 regexpVars, lastNames, advisorVars, adviceCall, frame>>
parserRest == <<adviceVars, lastCall, weaverVars, disposed, factoryVars, selectorVars,
                regexpVars, lastNames, advisorVars, adviceCall, frame>>
selectorRest == <<adviceVars, lastCall, weaverVars, disposed, factoryVars, parserVars,
                  regexpVars, lastNames, advisorVars, adviceCall, frame>>
regexpRest == <<adviceVars, lastCall, weaverVars, disposed, factoryVars, parserVars,
                selectorVars, lastNames, advisorVars, adviceCall, frame>>
auxVars == <<disposed, factoryVars, parserVars, selectorVars, regexpVars, lastNames, advisorVars, adviceCall, frame>>
vars == <<wrappers, bucket, proto, desc, argNamesMeta, paramTypes, advisors, lastCall,
          pointcuts, flags, proxies, boot, completion, processed, boots, firstBoot,
          disposed, factory, handles, lastOp,
          pcExpression, registry, parses, evals, selector, lastMatch,
          regexpPointcut, lastRegexpMatch, lastNames, advisor, lastExecute, adviceCall, frame>>

\* --------------------------------------------------------- params.ts
Names(ns) == [st |-> "names", names |-> ns, err |-> Undef]
Unknown == [st |-> "undefined", names |-> <<>>, err |-> Undef]
Raised(e) == [st |-> "throw", names |-> <<>>, err |-> e]

\* Function.length of a function value: a wrapper is `function (...args)`.
FnLength(fn) == IF fn.w = 0 THEN DeclaredLength(fn.k) ELSE 0

AnnotationParameterNameDiscoverer(c, k) ==
    IF Len(argNamesMeta) > 0 THEN Names(argNamesMeta) ELSE Unknown

StandardReflectionParameterNameDiscoverer(c, k) ==
    IF FnLength(proto[c][k]) > 0
    THEN IF paramTypes.has
         THEN Names(paramTypes.names)
         ELSE Raised(Err("TypeError: reading 'map' of undefined"))
    ELSE Unknown

getParameterNames(c, k) ==
    LET a == AnnotationParameterNameDiscoverer(c, k)
        s == StandardReflectionParameterNameDiscoverer(c, k)
    IN  IF a.st # "undefined" THEN a
        ELSE IF s.st # "undefined" THEN s
        ELSE Raised(Err("TypeError: Unable to determine parameter names"))

\* ---------------------------------------------------------- advice.ts
\* paramNames of a wrapper: argNames ? argNames.split(',') : getParameterNames(...)
ParamNames(w) ==
    IF Len(w.argNames) > 0 THEN Names(w.argNames) ELSE getParameterNames(w.c, w.k)

\* Array.prototype.indexOf, one-based (0 when absent).
IndexOf(names, name) ==
    LET S == {i \in 1..Len(names) : names[i] = name}
    IN  IF S = {} THEN 0 ELSE CHOOSE i \in S : \A j \in S : i <= j

ArgAt(args, i) == IF i >= 1 /\ i <= Len(args) THEN args[i] ELSE Undef

\* adviceArgs: paramNames.map(name => ...) of each decorator.  `extra` is the
\* result (afterReturning) or the caught error (afterThrowing).
AdviceArgs(kind, names, jp, args, extra) ==
    [i \in 1..Len(names) |->
        IF names[i] = "joinPoint" THEN jp
        ELSE IF names[i] = "result" /\ kind = "afterReturning" THEN extra
        ELSE IF names[i] = "error" /\ kind = "afterThrowing" THEN extra
        ELSE ArgAt(args, IndexOf(names, names[i]))]

\* Reflect.getMetadata(kind, target.constructor) || [] : the array of the
\* class itself when it has one, else the one found along the constructors'
\* prototype chain.  bk[c][kind] is the array made for c (by the `|| []` of
\* an installation on c, which pushes into it at once); Holder is the class
\* whose array the lookup from c returns (c itself when there is none).
RECURSIVE Holder(_, _, _)
Holder(bk, c, kind) ==
    IF bk[c][kind] # <<>> \/ Superclass(c) = "" THEN c
    ELSE LET h == Holder(bk, Superclass(c), kind)
         IN  IF bk[h][kind] # <<>> THEN h ELSE c

Registry(bk, c, kind) == bk[Holder(bk, c, kind)][kind]

\* getMatchingAdvisor: the first advisor whose method matcher accepts
\* (method, type) or whose class filter accepts the type; 0 when none.
getMatchingAdvisor(c) ==
    LET S == {i \in 1..Len(advisors) :
                 \/ advisors[i].isMethod /\ advisors[i].sel
                 \/ advisors[i].isClass /\ advisors[i].flt}
    IN  IF S = {} THEN 0 ELSE CHOOSE i \in S : \A j \in S : i <= j

\* Advisor.execute(joinPoint, ...args).
execute(i) ==
    LET a == advisors[i]
    IN  IF a.isClass /\ a.flt THEN [executed |-> TRUE, out |-> a.out]
        ELSE IF a.isMethod /\ a.exe THEN [executed |-> TRUE, out |-> a.out]
        ELSE [executed |-> FALSE, out |-> Ret(Undef)]

Ev(e, d, w, i, fn, a, x) ==
    [e |-> e, d |-> d, w |-> w, i |-> i, c |-> fn.c, k |-> fn.k, a |-> a, x |-> x]

R(log, out) == [log |-> log, out |-> out]

\* if (advisor) advisor.execute(joinPoint, ...args), as a trace and an outcome.
RunAdvisor(adv, d, wid, fn, args) ==
    IF adv = 0 THEN [log |-> <<>>, out |-> Ret(Undef), executed |-> FALSE]
    ELSE LET ex == execute(adv)
         IN  [log |-> <<Ev("advisor", d, wid, IF ex.executed THEN adv ELSE 0, fn, args, ex.out)>>,
              out |-> ex.out, executed |-> ex.executed]

RECURSIVE Exec(_, _, _, _, _)
RECURSIVE Fire(_, _, _, _, _, _, _)

\* The body of a declared method, by the role it is invoked in: as the
\* original of a call it returns 10 or throws E; as an advice it returns 7,
\* throws AE, or calls the proceed thunk it was handed and returns its
\* result plus one.
Body(fn, args, role, d, env) ==
    LET ev == Ev(IF role = "orig" THEN "body" ELSE "adviceBody", d, 0, 0, fn, args, NoOut)
        last == IF Len(args) > 0 THEN args[Len(args)] ELSE Undef
    IN  IF role = "orig"
        THEN R(<<ev>>, IF env.orig = "ret" THEN Ret(Num(10)) ELSE Throw(Err("E")))
        ELSE IF env.adv = "ret" THEN R(<<ev>>, Ret(Num(7)))
        ELSE IF env.adv = "throw" THEN R(<<ev>>, Throw(Err("AE")))
        ELSE IF last.t # "thunk"
             THEN R(<<ev>>, Throw(Err("TypeError: proceed is not a function")))
             ELSE LET p == Exec(wrappers[last.n].orig, last.a, last.s, d + 1, env)
                      pe == Ev("proceed", d, last.n, 0, fn, last.a, p.out)
                  IN  R(<<ev>> \o p.log \o <<pe>>,
                        IF p.out.k = "ret" THEN Ret(Num(p.out.v.n + 1)) ELSE p.out)

\* advices.forEach(advice => { if (advice.pointcut === pointcut) {...} }) of
\* wrapper wid, from record i on.  res is the last value an advice returned.
Fire(wid, i, args, extra, role, d, env) ==
    LET w == wrappers[wid]
        fn == WrapFn(wid, w.c, w.k)
        recs == Registry(bucket, w.c, w.kind)
    IN  IF i > Len(recs) THEN [log |-> <<>>, out |-> NoOut, res |-> Undef, n |-> 0]
        ELSE IF recs[i].pointcut # w.pointcut THEN Fire(wid, i + 1, args, extra, role, d, env)
        ELSE LET pn == ParamNames(w)
             IN  IF pn.st = "throw"
                 THEN [log |-> <<Ev("discovery", d, wid, i, fn, <<>>, Throw(pn.err))>>,
                       out |-> Throw(pn.err), res |-> Undef, n |-> 0]
                 ELSE LET jp == JoinPoint(w.c, w.k, args)
                          aa == AdviceArgs(w.kind, pn.names, jp, args, extra)
                          full == IF w.kind = "around"
                                  THEN Append(aa, Thunk(wid, role, args)) ELSE aa
                          r == Exec(recs[i].method, full, "advice", d + 1, env)
                          b == Ev("advBegin", d, wid, i, fn, full, NoOut)
                          e == Ev("advEnd", d, wid, i, fn, full, r.out)
                          here == <<b>> \o r.log \o <<e>>
                      IN  IF r.out.k = "throw"
                          THEN [log |-> here, out |-> r.out, res |-> Undef, n |-> 1]
                          ELSE LET rest == Fire(wid, i + 1, args, extra, role, d, env)
                               IN  [log |-> here \o rest.log, out |-> rest.out,
                                    res |-> IF rest.n = 0 THEN r.out.v ELSE rest.res,
                                    n |-> rest.n + 1]

\* originalMethod.apply(this, args) of wrapper wid, bracketed in the trace.
Orig(wid, args, role, d, env) ==
    LET w == wrappers[wid]
        fn == WrapFn(wid, w.c, w.k)
        o == Exec(w.orig, args, role, d + 1, env)
    IN  R(<<Ev("origBegin", d, wid, 0, fn, args, NoOut)>> \o o.log
              \o <<Ev("origEnd", d, wid, 0, fn, args, o.out)>>, o.out)

\* Before whose wrapper calls the original whatever the advisor did.
BeforeAlwaysCallingOriginal(wid, args, role, d, env) ==
    LET w == wrappers[wid]
        fn == WrapFn(wid, w.c, w.k)
        f == Fire(wid, 1, args, Undef, role, d, env)
    IN  IF f.out.k = "throw" THEN R(f.log, f.out)
        ELSE LET ex == RunAdvisor(getMatchingAdvisor(w.c), d, wid, fn, args)
             IN  IF ex.out.k = "throw" THEN R(f.log \o ex.log, ex.out)
                 ELSE LET o == Orig(wid, args, role, d, env)
                      IN  R(f.log \o ex.log \o o.log, o.out)

Before(wid, args, role, d, env) ==
    LET w == wrappers[wid]
        fn == WrapFn(wid, w.c, w.k)
        f == Fire(wid, 1, args, Undef, role, d, env)
    IN  IF f.out.k = "throw" THEN R(f.log, f.out)
        ELSE LET ex == RunAdvisor(getMatchingAdvisor(w.c), d, wid, fn, args)
             IN  IF ex.out.k = "throw" THEN R(f.log \o ex.log, ex.out)
                 ELSE IF ex.executed THEN R(f.log \o ex.log, ex.out)
                 ELSE LET o == Orig(wid, args, role, d, env)
                      IN  R(f.log \o ex.log \o o.log, o.out)

AfterReturning(wid, args, role, d, env) ==
    LET w == wrappers[wid]
        fn == WrapFn(wid, w.c, w.k)
        o == Orig(wid, args, role, d, env)
    IN  IF o.out.k = "throw" THEN o
        ELSE LET f == Fire(wid, 1, args, o.out.v, role, d, env)
             IN  IF f.out.k = "throw" THEN R(o.log \o f.log, f.out)
                 ELSE LET ex == RunAdvisor(getMatchingAdvisor(w.c), d, wid, fn, args)
                      IN  R(o.log \o f.log \o ex.log,
                            IF ex.out.k = "throw" THEN ex.out ELSE o.out)

\* AfterThrowing whose catch block re-raises the original's error even
\* when an advice ended abruptly.
AfterThrowingSwallowing(wid, args, role, d, env) ==
    LET w == wrappers[wid]
        fn == WrapFn(wid, w.c, w.k)
        o == Orig(wid, args, role, d, env)
    IN  IF o.out.k = "ret" THEN o
        ELSE LET f == Fire(wid, 1, args, o.out.v, role, d, env)
             IN  IF f.out.k = "throw" THEN R(o.log \o f.log, o.out)
                 ELSE LET ex == RunAdvisor(getMatchingAdvisor(w.c), d, wid, fn, args)
                      IN  R(o.log \o f.log \o ex.log,
                            IF ex.out.k = "throw" THEN ex.out ELSE o.out)

AfterThrowing(wid, args, role, d, env) ==
    LET w == wrappers[wid]
        fn == WrapFn(wid, w.c, w.k)
        o == Orig(wid, args, role, d, env)
    IN  IF o.out.k = "ret" THEN o
        ELSE LET f == Fire(wid, 1, args, o.out.v, role, d, env)
             IN  IF f.out.k = "throw" THEN R(o.log \o f.log, f.out)
                 ELSE LET ex == RunAdvisor(getMatchingAdvisor(w.c), d, wid, fn, args)
                      IN  R(o.log \o f.log \o ex.log,
                            IF ex.out.k = "throw" THEN ex.out ELSE o.out)

After(wid, args, role, d, env) ==
    LET w == wrappers[wid]
        fn == WrapFn(wid, w.c, w.k)
        o == Orig(wid, args, role, d, env)
        f == Fire(wid, 1, args, Undef, role, d, env)
    IN  IF f.out.k = "throw" THEN R(o.log \o f.log, f.out)
        ELSE LET ex == RunAdvisor(getMatchingAdvisor(w.c), d, wid, fn, args)
             IN  R(o.log \o f.log \o ex.log,
                   IF ex.out.k = "throw" THEN ex.out ELSE o.out)

Around(wid, args, role, d, env) ==
    LET w == wrappers[wid]
        fn == WrapFn(wid, w.c, w.k)
        f == Fire(wid, 1, args, Undef, role, d, env)
    IN  IF f.out.k = "throw" THEN R(f.log, f.out)
        ELSE LET ex == RunAdvisor(getMatchingAdvisor(w.c), d, wid, fn, args)
             IN  R(f.log \o ex.log,
                   IF ex.out.k = "throw" THEN ex.out ELSE Ret(f.res))

\* fn.apply(this, args) at stack depth d.
Exec(fn, args, role, d, env) ==
    IF d > MaxDepth THEN R(<<>>, Throw(Err("RangeError: Maximum call stack size exceeded")))
    ELSE IF fn.w = 0 THEN Body(fn, args, role, d, env)
    ELSE LET kind == wrappers[fn.w].kind
         IN  IF kind = "before" THEN Before(fn.w, args, role, d, env)
             ELSE IF kind = "afterReturning" THEN AfterReturning(fn.w, args, role, d, env)
             ELSE IF kind = "afterThrowing" THEN AfterThrowing(fn.w, args, role, d, env)
             ELSE IF kind = "after" THEN After(fn.w, args, role, d, env)
             ELSE Around(fn.w, args, role, d, env)

\* ------------------------------------------------------------------ actions
\* The decorator function returned by Before / After / ... (pointcut, argNames),
\* applied to (target = prototype of c, propertyKey = k, descriptor): it
\* replaces descriptor.value by a new wrapper around the old value and
\* appends the record {pointcut, method: target[propertyKey]} to the registry.
Decorate(ws, bk, kind, pc, an, c, k, value) ==
    [wrappers |-> Append(ws, [kind |-> kind, pointcut |-> pc, argNames |-> an,
                              c |-> c, k |-> k, orig |-> value]),
     bucket |-> [bk EXCEPT ![Holder(bk, c, kind)][kind] =
                    Append(@, [pointcut |-> pc, method |-> proto[c][k]])]]

\* A decorator applied by the host (decorator syntax, or a direct call with
\* the descriptor the host keeps for the method).
ApplyDecorator(kind, pc, an, c, k) ==
    LET dd == Decorate(wrappers, bucket, kind, pc, an, c, k, desc[c][k])
    IN  /\ Len(wrappers) < MaxDecor
        /\ advisors # <<>> => Len(wrappers) < MaxAdvisedDecor
        /\ Len(wrappers) = 0 => pc = "P"
        /\ wrappers' = dd.wrappers
        /\ bucket' = dd.bucket
        /\ desc' = [desc EXCEPT ![c][k] = WrapFn(Len(wrappers) + 1, c, k)]
        /\ lastCall' = NoCall
        /\ UNCHANGED <<proto, argNamesMeta, paramTypes, advisors>>
        /\ UNCHANGED weaverVars
        /\ UNCHANGED auxVars

\* The host's last step of decorating a method: Object.defineProperty(target,
\* key, descriptor) with the descriptor the decorators returned.
DefineProperty(c, k) ==
    /\ desc[c][k] # proto[c][k]
    /\ proto' = [proto EXCEPT ![c][k] = desc[c][k]]
    /\ lastCall' = NoCall
    /\ UNCHANGED <<wrappers, bucket, desc, argNamesMeta, paramTypes, advisors>>
    /\ UNCHANGED weaverVars
    /\ UNCHANGED auxVars

CallArgs(k) == IF k = "m" THEN <<>> ELSE <<Num(2), Num(3)>>

Envs == { [orig |-> "ret", adv |-> "ret"], [orig |-> "throw", adv |-> "ret"],
          [orig |-> "ret", adv |-> "throw"], [orig |-> "ret", adv |-> "proceed"],
          [orig |-> "throw", adv |-> "proceed"], [orig |-> "throw", adv |-> "throw"] }

\* instance[k](...args) on an instance of c.  An advice body that proceeds is
\* only exercised where a proceed thunk is handed over (an around wrapper).
Call(c, k, env) ==
    LET fn == proto[c][k]
        r == Exec(fn, CallArgs(k), "orig", 0, env)
    IN  /\ env.adv # "ret" => fn.w # 0
        /\ env.adv = "proceed" => wrappers[fn.w].kind = "around"
        /\ lastCall' = [called |-> TRUE, fn |-> fn, args |-> CallArgs(k), env |-> env,
                        log |-> r.log, out |-> r.out]
        /\ UNCHANGED adviceVars
        /\ UNCHANGED weaverVars
        /\ UNCHANGED auxVars

\* The advisors a class may carry: none, a class filter that accepts, a
\* method matcher that accepts, a method matcher that selects the method but
\* rejects the call's arguments, and a rejecting filter before a matcher.
Advisor(isClass, isMethod, flt, sel, exe, out) ==
    [isClass |-> isClass, isMethod |-> isMethod, flt |-> flt, sel |-> sel,
     exe |-> exe, out |-> out]
AdvisorLists ==
    { <<>>,
      <<Advisor(TRUE, FALSE, TRUE, FALSE, FALSE, Ret(Num(99)))>>,
      <<Advisor(FALSE, TRUE, FALSE, TRUE, FALSE, Ret(Num(99)))>>,
      <<Advisor(TRUE, FALSE, FALSE, FALSE, FALSE, Ret(Num(98))),
        Advisor(FALSE, TRUE, FALSE, TRUE, TRUE, Ret(Num(99)))>> }

\* The 'argNames' metadata: nothing in the library writes it, a user may.
ArgNamesMeta == { <<>>, <<"joinPoint">> }

\* The 'design:paramtypes' metadata: absent unless the compiler emits it.
NoParamTypes == [has |-> FALSE, names |-> <<>>]

\* ------------------------------------------------------------- weaver.ts
Ids == {"g", "x"}
Modules == {"A", "B", "C"}

\* The aspect classes whose prototype chain is Function.prototype.
PlainClasses == {"C"}

NoFlags == [useCglib |-> FALSE, useAspectJ |-> FALSE, frozen |-> FALSE, exposeProxy |-> FALSE]
NoPointcuts == [id \in Ids |-> ""]
Idle == [st |-> "idle", queue |-> <<>>, i |-> 1, input |-> <<>>, globals |-> <<>>,
         flags |-> NoFlags]
Pending == [st |-> "pending", err |-> Undef]
Resolved == [st |-> "resolved", err |-> Undef]
Rejected(e) == [st |-> "rejected", err |-> e]
NoPromise == [st |-> "none", err |-> Undef]

\* An error with a name and the identifier its message quotes.
ErrAbout(name, what) == Val("error", 0, name, what, <<>>)

\* --- configuration (config.ts)
AdviceConfig(type, method, pointcut, pointcutRef, argNames, returning, throwing) ==
    [type |-> type, method |-> method, pointcut |-> pointcut, pointcutRef |-> pointcutRef,
     argNames |-> argNames, returning |-> returning, throwing |-> throwing]
PointcutConfig(id, expression) == [id |-> id, expression |-> expression]
AspectConfig(ref, hasOrder, order, pcs, advices) ==
    [ref |-> ref, hasOrder |-> hasOrder, order |-> order, pointcuts |-> pcs,
     advices |-> advices]

\* Aspect A, order 1, with a before advice on an inline pointcut; aspect B,
\* order 2, with a before advice on the named pointcut g.
AspectA ==
    AspectConfig("A", TRUE, 1, <<>>,
        <<AdviceConfig("before", "n", "P", "", <<"a">>, <<>>, <<>>)>>)
AspectB ==
    AspectConfig("B", TRUE, 2, <<>>,
        <<AdviceConfig("before", "n", "", "g", <<"a">>, <<>>, <<>>)>>)

\* The aspect configurations a boot is given.
AspectConfigs ==
    { AspectA, AspectB,
      AspectConfig("B", FALSE, 0, <<PointcutConfig("x", "Q")>>,
          <<AdviceConfig("after", "m", "", "x", <<>>, <<>>, <<>>)>>),
      AspectConfig("A", TRUE, 0, <<>>,
          <<AdviceConfig("afterReturning", "n", "", "x", <<"joinPoint", "result">>,
                         <<"result">>, <<>>)>>),
      AspectConfig("C", TRUE, 1, <<>>, <<>>),
      AspectConfig("missing", TRUE, 0, <<>>,
          <<AdviceConfig("around", "m", "Q", "", <<>>, <<>>, <<>>)>>),
      AspectConfig("A", TRUE, 2, <<>>,
          <<AdviceConfig("afterThrowing", "zz", "Q", "", <<>>, <<>>, <<"error">>)>>) }

\* The longest aspect list of a configuration.
MaxAspects == 2

\* The number of boots started in one behaviour.
MaxBoots == 1

\* The number of boots started in a behaviour that boots again after a
\* dispose.
MaxReboots == 2

AspectLists ==
    UNION { [1..n -> AspectConfigs] : n \in 0..MaxAspects }

FlagSets ==
    { [proxyTargetClass |-> FALSE, useAspectJ |-> FALSE, frozen |-> FALSE, exposeProxy |-> FALSE],
      [proxyTargetClass |-> TRUE, useAspectJ |-> FALSE, frozen |-> TRUE, exposeProxy |-> FALSE],
      [proxyTargetClass |-> FALSE, useAspectJ |-> TRUE, frozen |-> FALSE, exposeProxy |-> TRUE],
      [proxyTargetClass |-> TRUE, useAspectJ |-> TRUE, frozen |-> TRUE, exposeProxy |-> TRUE] }

AopConfigs ==
    { [flags |-> f, pointcuts |-> p, aspects |-> a] :
          f \in FlagSets, p \in { <<>>, <<PointcutConfig("g", "P")>> }, a \in AspectLists }

\* --- Weaver.boot: the sort
\* a.order || 0
OrderOf(a) == IF a.hasOrder THEN a.order ELSE 0

\* A comparator that sorts by descending order.
CompareAspectsDescending(a, b) == OrderOf(b) - OrderOf(a)

\* The comparator (a, b) => (a.order || 0) - (b.order || 0).
CompareAspects(a, b) == OrderOf(a) - OrderOf(b)

\* Array.prototype.sort is stable: an element goes behind every element that
\* does not compare greater.  The elements carry their input position.
RECURSIVE Insert(_, _)
Insert(x, s) ==
    IF s = <<>> THEN <<x>>
    ELSE IF CompareAspects(s[1].cfg, x.cfg) <= 0 THEN <<s[1]>> \o Insert(x, Tail(s))
    ELSE <<x>> \o s

RECURSIVE SortAspects(_)
SortAspects(s) ==
    IF s = <<>> THEN <<>>
    ELSE Insert(s[Len(s)], SortAspects(SubSeq(s, 1, Len(s) - 1)))

Tagged(aspects) == [i \in 1..Len(aspects) |-> [cfg |-> aspects[i], pos |-> i]]

\* pointcuts.forEach(p => Weaver.pointcuts.set(p.id, p.expression))
RECURSIVE Register(_, _)
Register(map, pcs) ==
    IF pcs = <<>> THEN map
    ELSE Register([map EXCEPT ![pcs[1].id] = pcs[1].expression], Tail(pcs))

\* --- Weaver.weave: config.advices.forEach(...), from advice i on.  The
\* decorator gets a fresh copy of the own property descriptor, which is
\* dropped afterwards: the prototype is not written.
RECURSIVE WeaveAdvices(_, _, _, _, _, _)
WeaveAdvices(c, advs, i, map, ws, bk) ==
    IF i > Len(advs) THEN [wrappers |-> ws, bucket |-> bk, out |-> Ret(Undef)]
    ELSE LET ac == advs[i]
             expr == IF ac.pointcut # "" THEN ac.pointcut
                     ELSE IF ac.pointcutRef \in Ids THEN map[ac.pointcutRef] ELSE ""
             an == IF ac.type = "afterReturning" THEN ac.returning
                   ELSE IF ac.type = "afterThrowing" THEN ac.throwing
                   ELSE ac.argNames
         IN  IF expr = ""
             THEN [wrappers |-> ws, bucket |-> bk,
                   out |-> Throw(ErrAbout("ReferenceError: Pointcut not found", ac.pointcutRef))]
             ELSE IF ac.method \notin Keys
             THEN [wrappers |-> ws, bucket |-> bk,
                   out |-> Throw(ErrAbout("ReferenceError: Method not found in aspect", ac.method))]
             ELSE LET dd == Decorate(ws, bk, ac.type, expr, an, c, ac.method, proto[c][ac.method])
                  IN  WeaveAdvices(c, advs, i + 1, map, dd.wrappers, dd.bucket)

weave(c, config, map, ws, bk) ==
    LET map2 == Register(map, config.pointcuts)
        r == WeaveAdvices(c, config.advices, 1, map2, ws, bk)
    IN  [pointcuts |-> map2, wrappers |-> r.wrappers, bucket |-> r.bucket, out |-> r.out]

\* ProxyFactory.addAdvice, for each advice of the aspect: assertNotFrozen.
addAdvice(frozen, advices) ==
    IF frozen /\ Len(advices) > 0
    THEN Throw(Err("TypeError: Cannot modify a frozen proxy configuration"))
    ELSE Ret(Undef)

\* ProxyFactory.proxy of a factory without interfaces: the AspectJ proxy, or
\* the class proxy.  createCglibProxy reads every own property name of the
\* prototype of the target off the target; for a class without a superclass
\* these are the names of Function.prototype, of which `arguments` and
\* `caller` raise a TypeError when read off a class.
proxy(c, fl) ==
    IF fl.useAspectJ THEN Ret(Undef)
    ELSE IF c \in PlainClasses
         THEN Throw(Err("TypeError: 'caller', 'callee', and 'arguments' may not be accessed"))
         ELSE Ret(Undef)

ProxyFactory(c, fl, advices) ==
    [target |-> c, interfaces |-> <<>>,
     advices |-> [i \in 1..Len(advices) |-> advices[i].method],
     useCglib |-> fl.useCglib, useAspectJ |-> fl.useAspectJ,
     frozen |-> fl.frozen, exposeProxy |-> fl.exposeProxy,
     revocableProxy |-> 0]

\* A dispose that leaves the frozen flag as it was.
disposeKeepingFrozen(f) ==
    [f EXCEPT !.revocableProxy = 0, !.target = "null", !.advices = <<>>,
              !.interfaces = <<>>, !.useCglib = FALSE, !.useAspectJ = FALSE,
              !.exposeProxy = FALSE]

\* A dispose that keeps the target of the factory.
disposeKeepingTarget(f) ==
    [f EXCEPT !.interfaces = <<>>, !.advices = <<>>, !.useCglib = FALSE,
              !.useAspectJ = FALSE, !.frozen = FALSE, !.exposeProxy = FALSE,
              !.revocableProxy = 0]

\* ProxyFactory.dispose(), on the fields of the factory: the revocable handle
\* dropped, the target nulled, both lists emptied, the four flags reset.
dispose(f) ==
    [f EXCEPT !.revocableProxy = 0, !.target = "null", !.advices = <<>>,
              !.interfaces = <<>>, !.useCglib = FALSE, !.useAspectJ = FALSE,
              !.frozen = FALSE, !.exposeProxy = FALSE]

\* The body of the loop of Weaver.boot for one aspect, from the resolution of
\* the import to the end of the try block or its catch.
AspectStep(a) ==
    LET same == [pointcuts |-> pointcuts, wrappers |-> wrappers, bucket |-> bucket,
                 proxies |-> proxies, weaved |-> FALSE]
        added == addAdvice(flags.frozen, a.advices)
        pushed == Append(proxies, ProxyFactory(a.ref, flags, a.advices))
        px == proxy(a.ref, flags)
        w == weave(a.ref, a, pointcuts, wrappers, bucket)
    IN  IF a.ref \notin Modules
        THEN [same EXCEPT !.weaved = FALSE] @@ [out |-> Throw(ErrAbout("Error: Cannot find module", a.ref))]
        ELSE IF added.k = "throw" THEN same @@ [out |-> added]
        ELSE IF px.k = "throw" THEN [same EXCEPT !.proxies = pushed] @@ [out |-> px]
        ELSE [pointcuts |-> w.pointcuts, wrappers |-> w.wrappers, bucket |-> w.bucket,
              proxies |-> pushed, weaved |-> TRUE, out |-> w.out]

\* The four static flags as Weaver.boot takes them from the configuration.
FlagsOf(config) ==
    [useCglib |-> config.flags.proxyTargetClass,
     useAspectJ |-> config.flags.useAspectJ,
     frozen |-> config.flags.frozen,
     exposeProxy |-> config.flags.exposeProxy]

\* Weaver.boot(config) up to its first await: the flags, the global
\* pointcuts, the sort.  Without aspects the promise resolves at once.
BootWithin(config, limit) ==
    LET sorted == SortAspects(Tagged(config.aspects))
    IN  /\ boots < limit
        /\ boot.st # "running"
        /\ boots' = boots + 1
        /\ flags' = FlagsOf(config)
        /\ pointcuts' = Register(pointcuts, config.pointcuts)
        /\ boot' = [st |-> IF sorted = <<>> THEN "done" ELSE "running",
                    queue |-> sorted, i |-> 1,
                    input |-> config.aspects, globals |-> config.pointcuts,
                    flags |-> FlagsOf(config)]
        /\ completion' = IF sorted = <<>> THEN Resolved ELSE Pending
        /\ processed' = <<>>
        /\ lastCall' = NoCall
        /\ UNCHANGED <<proxies, firstBoot>>
        /\ UNCHANGED adviceVars
        /\ UNCHANGED auxVars

BootStart(config) == BootWithin(config, MaxBoots)

\* A boot of a behaviour that boots, disposes and boots again.
Reboot(config) == BootWithin(config, MaxReboots)

\* One iteration of the loop of Weaver.boot, and resolve() after the last.
\* reject(e) and resolve() settle the promise only when it is still pending.
BootAspect ==
    /\ boot.st = "running"
    /\ LET a == boot.queue[boot.i]
           r == AspectStep(a.cfg)
           last == boot.i = Len(boot.queue)
           c1 == IF r.out.k = "throw" /\ completion.st = "pending"
                 THEN Rejected(r.out.v) ELSE completion
           c2 == IF last /\ c1.st = "pending" THEN Resolved ELSE c1
       IN  /\ pointcuts' = r.pointcuts
           /\ wrappers' = r.wrappers
           /\ bucket' = r.bucket
           /\ proxies' = r.proxies
           /\ completion' = c2
           /\ processed' = Append(processed, [ref |-> a.cfg.ref, pos |-> a.pos,
                                              order |-> OrderOf(a.cfg), weaved |-> r.weaved,
                                              out |-> r.out])
           /\ boot' = [boot EXCEPT !.i = @ + 1, !.st = IF last THEN "done" ELSE "running"]
    /\ lastCall' = NoCall
    /\ UNCHANGED <<flags, boots, firstBoot, proto, desc, argNamesMeta, paramTypes, advisors>>
    /\ UNCHANGED auxVars

\* No dispose yet.  `disposes` tells no dispose, one, or more than one.
NoFirstBoot ==
    [taken |-> FALSE, disposes |-> 0, input |-> <<>>, globals |-> <<>>, flags |-> NoFlags,
     completion |-> NoPromise, bucket |-> [c \in Classes |-> [kd \in Kinds |-> <<>>]],
     proxies |-> <<>>, pointcuts |-> NoPointcuts]

\* Weaver.dispose(): every factory disposed, the live set, the pointcut
\* registry and the flags reset.  A first dispose that follows a finished
\* first boot keeps a record of what that boot had left.
Dispose ==
    /\ boots > 0
    /\ disposed' = disposed \o [i \in 1..Len(proxies) |-> dispose(proxies[i])]
    /\ proxies' = <<>>
    /\ pointcuts' = NoPointcuts
    /\ flags' = NoFlags
    /\ firstBoot' = IF firstBoot.disposes > 0 \/ boots # 1 \/ boot.st # "done"
                    THEN [firstBoot EXCEPT !.disposes = IF @ = 0 THEN 1 ELSE 2]
                    ELSE [taken |-> TRUE, disposes |-> 1,
                          input |-> boot.input, globals |-> boot.globals,
                          flags |-> flags, completion |-> completion, bucket |-> bucket,
                          proxies |-> proxies, pointcuts |-> pointcuts]
    /\ lastCall' = NoCall
    /\ UNCHANGED <<boot, completion, processed, boots>>
    /\ UNCHANGED adviceVars
    /\ UNCHANGED <<factoryVars, parserVars, selectorVars, regexpVars, lastNames, advisorVars, adviceCall, frame>>

\* ------------------------------------------------ weaver.ts: ProxyFactory
\* One factory, the handles its `proxy` accessor has returned, and the outcome
\* of the last operation on the factory or on a handle.
MaxHandles == 2
MaxListLen == 2
FactoryTargets == {"A", "C"}
AdviceFns == {"f", "g"}
InterfaceFns == {"I", "J"}

NoOp == [op |-> "none", h |-> 0, out |-> NoOut]
Op(op, h, out) == [op |-> op, h |-> h, out |-> out]

\* An assertNotFrozen that never throws.
assertNotFrozenNever(f) ==
    Ret(Undef)

\* ProxyFactory.assertNotFrozen().
assertNotFrozen(f) ==
    IF f.frozen
    THEN Throw(Err("TypeError: Cannot modify a frozen proxy configuration"))
    ELSE Ret(Undef)

\* The entries of both lists of a factory.
Listed(f) == Len(f.advices) + Len(f.interfaces)

\* factory.addAdvice(advice)
AddAdvice(advice) ==
    LET a == assertNotFrozen(factory)
    IN  /\ a.k = "throw" \/ Listed(factory) < MaxListLen
        /\ factory' = IF a.k = "throw" THEN factory
                       ELSE [factory EXCEPT !.advices = Append(@, advice)]
        /\ lastOp' = Op("addAdvice", 0, a)
        /\ UNCHANGED handles
        /\ UNCHANGED factoryRest

\* factory.addInterface(interfaceType)
AddInterface(interfaceType) ==
    LET a == assertNotFrozen(factory)
    IN  /\ a.k = "throw" \/ Listed(factory) < MaxListLen
        /\ factory' = IF a.k = "throw" THEN factory
                       ELSE [factory EXCEPT !.interfaces = Append(@, interfaceType)]
        /\ lastOp' = Op("addInterface", 0, a)
        /\ UNCHANGED handles
        /\ UNCHANGED factoryRest

\* setFrozen / setUseCglib / setUseAspectJ / setExposeProxy, and the setters
\* isFrozen / isCglib / isAspectJ / isExposed that forward to them.
setFrozen(b) ==
    /\ factory' = [factory EXCEPT !.frozen = b]
    /\ lastOp' = Op("setFrozen", 0, Ret(Undef))
    /\ UNCHANGED handles
    /\ UNCHANGED factoryRest

setUseCglib(b) ==
    /\ factory' = [factory EXCEPT !.useCglib = b]
    /\ lastOp' = Op("setUseCglib", 0, Ret(Undef))
    /\ UNCHANGED handles
    /\ UNCHANGED factoryRest

setUseAspectJ(b) ==
    /\ factory' = [factory EXCEPT !.useAspectJ = b]
    /\ lastOp' = Op("setUseAspectJ", 0, Ret(Undef))
    /\ UNCHANGED handles
    /\ UNCHANGED factoryRest

setExposeProxy(b) ==
    /\ factory' = [factory EXCEPT !.exposeProxy = b]
    /\ lastOp' = Op("setExposeProxy", 0, Ret(Undef))
    /\ UNCHANGED handles
    /\ UNCHANGED factoryRest

\* The branch the `proxy` getter takes.
ProxyMode(f) ==
    IF f.useAspectJ THEN "aspectj"
    ELSE IF f.useCglib \/ Len(f.interfaces) = 0 THEN "cglib"
    ELSE "dynamic"

\* A handle: the object a read of `proxy` returned.  revocable: made by
\* Proxy.revocable; revoked: its revoke() has run; stale: the factory has been
\* disposed since the handle was handed out.
Handle(mode, revocable) ==
    [mode |-> mode, revocable |-> revocable, revoked |-> FALSE, stale |-> FALSE]

\* createAspectJProxy / createTsDynamicProxy: new Proxy(target, ...) and
\* Proxy.revocable(target, ...) raise a TypeError for a null target.
createProxy(f) ==
    IF f.target = "null"
    THEN Throw(Err("TypeError: Cannot create proxy with a non-object as target or handler"))
    ELSE Ret(Undef)

createAspectJProxy(f) == createProxy(f)

createTsDynamicProxy(f) == createProxy(f)

\* createCglibProxy: Object.getPrototypeOf(null) raises; for a class without
\* a superclass the own names of Function.prototype are read off the class.
createCglibProxy(f) ==
    IF f.target = "null"
    THEN Throw(Err("TypeError: Cannot convert undefined or null to object"))
    ELSE proxy(f.target, [useAspectJ |-> FALSE])

\* A read of factory.proxy.
GetProxy ==
    LET mode == ProxyMode(factory)
        out == IF mode = "aspectj" THEN createAspectJProxy(factory)
               ELSE IF mode = "cglib" THEN createCglibProxy(factory)
               ELSE createTsDynamicProxy(factory)
        revocable == mode = "dynamic" /\ ~factory.frozen
        h == Len(handles) + 1
    IN  /\ Len(handles) < MaxHandles
        /\ IF out.k = "throw"
           THEN /\ UNCHANGED <<factory, handles>>
                /\ lastOp' = Op("getProxy", 0, out)
           ELSE /\ handles' = Append(handles, Handle(mode, revocable))
                /\ factory' = IF revocable THEN [factory EXCEPT !.revocableProxy = h]
                               ELSE factory
                /\ lastOp' = Op("getProxy", h, out)
        /\ UNCHANGED factoryRest

\* revocableProxy.revoke() of dispose, and the mark every handle handed out
\* so far carries from then on.
Revoke(hs, r) ==
    [i \in 1..Len(hs) |-> [hs[i] EXCEPT !.revoked = @ \/ i = r, !.stale = TRUE]]

\* factory.dispose()
FactoryDispose ==
    /\ handles' = Revoke(handles, factory.revocableProxy)
    /\ factory' = dispose(factory)
    /\ lastOp' = Op("dispose", 0, Ret(Undef))
    /\ UNCHANGED factoryRest

\* factory.proxy = value
SetProxy(value) ==
    /\ handles' = Revoke(handles, factory.revocableProxy)
    /\ factory' = [dispose(factory) EXCEPT !.target = value]
    /\ lastOp' = Op("setProxy", 0, Ret(Undef))
    /\ UNCHANGED factoryRest

\* handle.m(): a member of the target read and called through a handle.  A
\* revoked proxy raises on every trap; the method a class proxy carries reads
\* this.target of the factory when it is called.
Access(h) ==
    LET hd == handles[h]
        out == IF hd.revoked
               THEN Throw(Err("TypeError: Cannot perform 'get' on a proxy that has been revoked"))
               ELSE IF hd.mode = "cglib" /\ factory.target = "null"
               THEN Throw(Err("TypeError: Reflect.get called on non-object"))
               ELSE Ret(Undef)
    IN  /\ lastOp' = Op("access", h, out)
        /\ UNCHANGED <<factory, handles>>
        /\ UNCHANGED factoryRest

\* ------------------------------ point-cut.ts: PointcutExpressionParser
MaxTerms == 3
MaxParses == 2
MaxEvals == 2

\* Booleans as values.
Bool(b) == Val("boolean", IF b THEN 1 ELSE 0, "", "", <<>>)

\* A word of an expression, by the features of its text the parser reads:
\* prefix is the primitive prefix the text starts with ("" when none of the
\* ten), closed says that a ")" follows the prefix (the /name\((.*?)\)/ of the
\* primitive matches), body is what lies between, rest what follows the ")".
Word(text, prefix, body, closed, rest) ==
    [text |-> text, prefix |-> prefix, body |-> body, closed |-> closed, rest |-> rest]
Bare(text) == Word(text, "", "", FALSE, "")
AndToken == Bare("&&")
OrToken == Bare("||")
NotToken == Bare("!")
EmptyToken == Bare("")

PrimitivePrefixes ==
    {"execution(", "within(", "this(", "target(", "args(",
     "@target(", "@within(", "@annotation(", "@args(", "bean("}

\* The operands the expressions are made of: three names, a primitive, a
\* primitive without its ")", a primitive with text after its ")", and a
\* word that is none of these.
Operands ==
    { Bare("A"), Bare("B"), Bare("C"),
      Word("bean(b)", "bean(", "b", TRUE, ""),
      Word("bean(b", "bean(", "", FALSE, ""),
      Word("bean(b)x", "bean(", "b", TRUE, "x"),
      Bare("fooBar(x)") }
BinaryOps == {AndToken, OrToken}
Term(neg, w) == IF neg THEN <<NotToken, w>> ELSE <<w>>
Terms == {Term(neg, w) : neg \in BOOLEAN, w \in Operands}

RECURSIVE ChainsOf(_)
ChainsOf(n) ==
    IF n = 1 THEN Terms
    ELSE {c \o <<o>> \o t : c \in ChainsOf(n - 1), o \in BinaryOps, t \in Terms}

\* Token sequences that are no chain: a lone operator, two operands without
\* an operator between them, a trailing operator.
Malformed ==
    { <<AndToken>>, <<OrToken>>,
      <<Bare("A"), Bare("B")>>,
      <<Bare("A"), Word("bean(b)", "bean(", "b", TRUE, "")>>,
      <<Bare("A"), AndToken>>,
      <<Bare("A"), OrToken, Bare("B"), AndToken>> }

\* The expressions: the empty string, up to MaxTerms operands, each with or
\* without a "!" before it, joined by "&&" and "||", and the malformed
\* sequences; the words are separated by single spaces.
Expressions == {<<>>} \cup UNION {ChainsOf(n) : n \in 1..MaxTerms} \cup Malformed

\* expression.split(/\s+/): the empty string splits into one empty token.
Split(e) == IF e = <<>> THEN <<EmptyToken>> ELSE e

\* Function values of type MatchPointcut, and the string a stack may hold.
Pred(k, id, body, l, r) == [k |-> k, id |-> id, body |-> body, l |-> l, r |-> r]
User(id) == Pred("user", id, "", <<>>, <<>>)
Prim(prefix, body) == Pred("prim", prefix, body, <<>>, <<>>)
AndPred(left, right) == Pred("and", "", "", <<left>>, <<right>>)
OrPred(left, right) == Pred("or", "", "", <<left>>, <<right>>)
Str(text) == Pred("string", text, "", <<>>, <<>>)
Undefined == Pred("undefined", "", "", <<>>, <<>>)
Absent == Pred("absent", "", "", <<>>, <<>>)

\* The candidates a predicate is applied to.  The registered predicates read
\* one field each, bean(...) reads the name.
Candidates == [a : BOOLEAN, b : BOOLEAN, c : BOOLEAN, name : {"b", "z"}]
RegistryNames == {"A", "B", "C"}
UserOf(name) == User(CASE name = "A" -> "uA" [] name = "B" -> "uB" [] name = "C" -> "uC")
UserHolds(id, x) == CASE id = "uA" -> x.a [] id = "uB" -> x.b [] id = "uC" -> x.c
FullRegistry == [name \in RegistryNames |-> UserOf(name)]

\* pointcutMethods.has(token) / .get(token)
hasPointcut(reg, text) == text \in DOMAIN reg /\ reg[text].k # "absent"
getPointcut(reg, text) == IF hasPointcut(reg, text) THEN reg[text] ELSE Undefined

\* `Invalid <name> expression`, thrown as SyntaxError by eight of the
\* primitive parsers and as Error by parseAtAnnotation and parseAtArgs.
InvalidMessage(prefix) ==
    CASE prefix = "execution(" -> "SyntaxError: Invalid execution expression"
      [] prefix = "within(" -> "SyntaxError: Invalid within expression"
      [] prefix = "this(" -> "SyntaxError: Invalid this expression"
      [] prefix = "target(" -> "SyntaxError: Invalid target expression"
      [] prefix = "args(" -> "SyntaxError: Invalid args expression"
      [] prefix = "@target(" -> "SyntaxError: Invalid @target expression"
      [] prefix = "@within(" -> "SyntaxError: Invalid @within expression"
      [] prefix = "@annotation(" -> "Error: Invalid @annotation expression"
      [] prefix = "@args(" -> "Error: Invalid @args expression"
      [] prefix = "bean(" -> "SyntaxError: Invalid bean expression"

\* parseExecution ... parseBean: the unanchored regex of the primitive, its
\* first capture closed into a predicate.
ParsePrimitive(token) ==
    IF token.closed THEN Ret(Prim(token.prefix, token.body))
    ELSE Throw(ErrAbout(InvalidMessage(token.prefix), token.text))

\* A parse that takes an unknown word for a string of the stack.
ParseTokenLenient(token, reg) ==
    IF token.text \in {"&&", "||", "!"} THEN Ret(Str(token.text))
    ELSE IF hasPointcut(reg, token.text) THEN Ret(getPointcut(reg, token.text))
    ELSE IF token.prefix \in PrimitivePrefixes THEN ParsePrimitive(token)
    ELSE Ret(Str(token.text))

\* The body of tokens.forEach in parse: what one token pushes, or throws.
ParseToken(token, reg) ==
    IF token.text \in {"&&", "||", "!"} THEN Ret(Str(token.text))
    ELSE IF hasPointcut(reg, token.text) THEN Ret(getPointcut(reg, token.text))
    ELSE IF token.prefix \in PrimitivePrefixes THEN ParsePrimitive(token)
    ELSE Throw(ErrAbout("SyntaxError: Unknown pointcut expression", token.text))

RECURSIVE ParseTokens(_, _, _, _)
ParseTokens(tokens, i, reg, stack) ==
    IF i > Len(tokens) THEN [k |-> "ret", v |-> stack]
    ELSE LET r == ParseToken(tokens[i], reg)
         IN  IF r.k = "throw" THEN r
             ELSE ParseTokens(tokens, i + 1, reg, Append(stack, r.v))

\* A combination that builds a conjunction for either operator.
CombineAlwaysAnd(operator, left, right, operands) ==
    IF operator.id \in {"&&", "||"} THEN Append(operands, AndPred(left, right))
    ELSE operands

\* The inner block of evaluate: the closure the popped operator builds from
\* the two popped operands; no closure for any other string.
Combine(operator, left, right, operands) ==
    IF operator.id = "&&" THEN Append(operands, AndPred(left, right))
    ELSE IF operator.id = "||" THEN Append(operands, OrPred(left, right))
    ELSE operands

\* The while loop of evaluate, and operands[0] at its end.
RECURSIVE EvaluateFrom(_, _, _)
EvaluateFrom(stack, operators, operands) ==
    IF stack = <<>>
    THEN IF operands = <<>> THEN Undefined ELSE operands[1]
    ELSE LET token == Head(stack)
             ops == IF token.k = "string" THEN Append(operators, token) ELSE operators
             opds == IF token.k = "string" THEN operands ELSE Append(operands, token)
         IN  IF Len(ops) > 0 /\ Len(opds) >= 2
             THEN EvaluateFrom(Tail(stack), SubSeq(ops, 1, Len(ops) - 1),
                               Combine(ops[Len(ops)], opds[Len(opds) - 1], opds[Len(opds)],
                                       SubSeq(opds, 1, Len(opds) - 2)))
             ELSE EvaluateFrom(Tail(stack), ops, opds)

evaluate(stack) == EvaluateFrom(stack, <<>>, <<>>)

\* PointcutExpressionParser.parse(expression) with the registry reg.
parse(e, reg) ==
    LET st == ParseTokens(Split(e), 1, reg, <<>>)
    IN  IF st.k = "throw" THEN st ELSE Ret(evaluate(st.v))

\* What a primitive predicate answers: bean(name) compares the candidate's
\* name with its body.
PrimitiveHolds(p, x) == CASE p.id = "bean(" -> x.name = p.body

\* p(x): a call of the value parse returned.  && and || of JavaScript give
\* the left value when it decides, else the right one.
RECURSIVE Apply(_, _)
Apply(p, x) ==
    CASE p.k = "user" -> Ret(Bool(UserHolds(p.id, x)))
      [] p.k = "prim" -> Ret(Bool(PrimitiveHolds(p, x)))
      [] p.k = "and" -> LET l == Apply(p.l[1], x)
                        IN  IF l.k = "throw" \/ l.v = Bool(FALSE) THEN l
                            ELSE Apply(p.r[1], x)
      [] p.k = "or" -> LET l == Apply(p.l[1], x)
                       IN  IF l.k = "throw" \/ l.v = Bool(TRUE) THEN l
                           ELSE Apply(p.r[1], x)
      [] OTHER -> Throw(Err("TypeError: parse(...) is not a function"))

\* A parse that forgets the name C once it has run.
ParseForgetting ==
    /\ Len(parses) < MaxParses
    /\ parses' = Append(parses, [reg |-> registry, out |-> parse(pcExpression, registry)])
    /\ evals' = <<>>
    /\ registry' = [registry EXCEPT !["C"] = Absent]
    /\ UNCHANGED pcExpression
    /\ UNCHANGED parserRest

\* A parse of the expression.
Parse ==
    /\ Len(parses) < MaxParses
    /\ parses' = Append(parses, [reg |-> registry, out |-> parse(pcExpression, registry)])
    /\ evals' = <<>>
    /\ UNCHANGED <<pcExpression, registry>>
    /\ UNCHANGED parserRest

\* The predicate of the last parse applied to every candidate.
Evaluate ==
    /\ parses # <<>>
    /\ parses[Len(parses)].out.k = "ret"
    /\ Len(evals) < MaxEvals
    /\ evals' = Append(evals, [x \in Candidates |-> Apply(parses[Len(parses)].out.v, x)])
    /\ UNCHANGED <<pcExpression, registry, parses>>
    /\ UNCHANGED parserRest

\* PointcutExpressionParser.setPointcut(name, method)
setPointcut(name, method) ==
    /\ registry' = [registry EXCEPT ![name] = method]
    /\ UNCHANGED <<pcExpression, parses, evals>>
    /\ UNCHANGED parserRest

\* PointcutExpressionParser.deletePointcut(name)
deletePointcut(name) ==
    /\ registry' = [registry EXCEPT ![name] = Absent]
    /\ UNCHANGED <<pcExpression, parses, evals>>
    /\ UNCHANGED parserRest

IdleParser ==
    /\ pcExpression = <<>>
    /\ registry = FullRegistry
    /\ parses = <<>>
    /\ evals = <<>>

InitCommon ==
    /\ wrappers = <<>>
    /\ bucket = [c \in Classes |-> [kd \in Kinds |-> <<>>]]
    /\ proto = [c \in Classes |-> [k \in Keys |-> BaseFn(c, k)]]
    /\ desc = [c \in Classes |-> [k \in Keys |-> BaseFn(c, k)]]
    /\ paramTypes = NoParamTypes
    /\ lastCall = NoCall
    /\ pointcuts = NoPointcuts
    /\ flags = NoFlags
    /\ proxies = <<>>
    /\ boot = Idle
    /\ completion = NoPromise
    /\ processed = <<>>
    /\ boots = 0
    /\ firstBoot = NoFirstBoot
    /\ disposed = <<>>
    /\ factory = ProxyFactory("A", NoFlags, <<>>)
    /\ handles = <<>>
    /\ lastOp = NoOp

\* -------------------------- pointcut/point-cut-selector.ts: PointcutSelector
\* A selector string, by the features of its text the selector reads: its
\* first character, what follows it, the first match of the attribute regex
\* /\[(\w+)([~|^$*]?=)?(...)?([is]?)\]/ (attr "" when there is none), and
\* the match of /^(\w+|\*)\|(\w+)$/ or /^\|(\w+)$/ (nsForm "none" when
\* neither matches).
Selector(text, first, slice1, attr, operator, flag, nsForm, namespace, typeName) ==
    [text |-> text, first |-> first, slice1 |-> slice1,
     attr |-> attr, operator |-> operator, flag |-> flag,
     nsForm |-> nsForm, namespace |-> namespace, typeName |-> typeName]

SelectorStrings ==
    { Selector("*", "*", "", "", "", "", "none", "", ""),
      Selector("#id1", "#", "id1", "", "", "", "none", "", ""),
      Selector("&T", "&", "T", "", "", "", "none", "", ""),
      Selector(":T", ":", "T", "", "", "", "none", "", ""),
      Selector("|T", "|", "T", "", "", "", "nons", "", "T"),
      Selector("ns|T", "n", "s|T", "", "", "", "ns", "ns", "T"),
      Selector("*|T", "*", "|T", "", "", "", "ns", "*", "T"),
      Selector("[role]", "[", "role]", "role", "", "", "none", "", ""),
      Selector("[name=m]", "[", "name=m]", "name", "=", "", "none", "", "") }

\* The types and methods the selector is asked about.  T carries metadata
\* id, namespace, design:type and role and declares m; U carries none and
\* declares nothing.  m carries metadata role, name and design:paramtypes
\* [Number]; n carries none.
SelectorTypes == {"T", "U"}
SelectorMethods == {"m", "n"}
RestArgs == {<<>>, <<Num(1)>>, <<Num(1), Num(2)>>}

\* Reflect.getMetadata(attr, joinPoint): "" stands for undefined.
GetMetadata(attr, joinPoint) ==
    CASE joinPoint = "T" /\ attr = "id" -> "id1"
      [] joinPoint = "T" /\ attr = "namespace" -> "ns"
      [] joinPoint = "T" /\ attr = "design:type" -> "T"
      [] joinPoint = "T" /\ attr = "role" -> "Admin"
      [] joinPoint = "m" /\ attr = "role" -> "m"
      [] joinPoint = "m" /\ attr = "name" -> "M"
      [] OTHER -> ""

\* String.prototype.toLowerCase on the strings above.
ToLowerCase(str) ==
    CASE str = "M" -> "m"
      [] str = "T" -> "t"
      [] str = "U" -> "u"
      [] str = "Admin" -> "admin"
      [] OTHER -> str

\* Reflect.getMetadata('design:paramtypes', method), by the typeof names the
\* parameter types stand for; <<"none">> stands for undefined.
DesignParamTypes(method) == IF method = "m" THEN <<"number">> ELSE <<"none">>

\* JavaScript's a && b.
AndJS(a, b) == IF a = Bool(TRUE) THEN b ELSE a

isRuntime(sel) == sel.isStaticPointcut
isSelectingAll(sel) == sel.expression.text = "*"
isSelectingByInstance(sel) == sel.expression.first = "&"
isSelectingByType(sel) == sel.expression.first = ":"
isSelectingById(sel) == sel.expression.first = "#"

matchId(sel, type) ==
    Bool(GetMetadata("id", type) # "" /\ GetMetadata("id", type) = sel.expression.slice1)

\* targetType && targetType.prototype && prototype.isPrototypeOf(<a string>)
isAssignableFrom(sel, type) ==
    IF GetMetadata("design:type", type) = "" THEN Undef ELSE Bool(FALSE)

isDeclaredMethod(method, type) == Bool(type = "T" /\ method = "m")

matchArguments(method, args) ==
    LET types == DesignParamTypes(method)
    IN  IF types = <<"none">> \/ Len(types) # Len(args) THEN Bool(FALSE)
        ELSE Bool(\A i \in 1..Len(args) : args[i].t = types[i])

matchType(sel, type) ==
    LET e == sel.expression
    IN  IF e.nsForm = "ns"
        THEN Bool(/\ e.namespace = "*" \/ e.namespace = GetMetadata("namespace", type)
                  /\ e.typeName = type)
        ELSE IF e.nsForm = "nons" THEN Bool(e.typeName = type)
        ELSE Bool(FALSE)

\* The attribute test; of the operators, `=` and the bare [attr] are drawn.
matchPointcut(sel, joinPoint) ==
    LET e == sel.expression
        attrValue == GetMetadata(e.attr, joinPoint)
        isHtmlAttribute == ToLowerCase(e.attr) \in {"id", "class", "data-*", "role", "aria-*"}
        insensitive == /\ ~isHtmlAttribute
                       /\ e.flag # "s"
                       /\ (e.flag = "i" \/ ToLowerCase(e.attr) = e.attr)
    IN  IF e.attr = "" THEN Bool(FALSE)
        ELSE IF attrValue = "" THEN Bool(FALSE)
        ELSE CASE e.operator = "=" ->
                      IF insensitive
                      THEN Bool(ToLowerCase(joinPoint) = ToLowerCase(attrValue))
                      ELSE Bool(joinPoint = attrValue)
               [] e.operator = "" -> Bool(TRUE)

\* PointcutSelector.filter(type)
filter(sel, type) ==
    IF isRuntime(sel) /\ isSelectingById(sel) THEN matchId(sel, type)
    ELSE IF isRuntime(sel) /\ isSelectingByType(sel) THEN matchType(sel, type)
    ELSE IF isRuntime(sel) /\ isSelectingByInstance(sel) THEN isAssignableFrom(sel, type)
    ELSE IF isRuntime(sel) /\ isSelectingAll(sel) THEN Bool(TRUE)
    ELSE matchPointcut(sel, type)

\* PointcutSelector.matches(method, type, ...args)
matches(sel, method, type, args) ==
    LET typeSide == IF isSelectingById(sel) THEN matchId(sel, type)
                    ELSE IF isSelectingByType(sel) THEN matchType(sel, type)
                    ELSE IF isSelectingByInstance(sel) THEN isAssignableFrom(sel, type)
                    ELSE isDeclaredMethod(method, type)
        matchType0 == IF isRuntime(sel) /\ Len(args) >= 2 THEN typeSide ELSE Bool(FALSE)
        matchMethod0 == IF isRuntime(sel) /\ Len(args) = 0 THEN Bool(FALSE)
                        ELSE matchPointcut(sel, method)
        matchMethod1 == IF Len(args) > 0
                        THEN AndJS(matchMethod0, matchArguments(method, args))
                        ELSE matchMethod0
    IN  IF isSelectingAll(sel) THEN Bool(TRUE)
        ELSE AndJS(matchType0, matchMethod1)

\* selector.filter(type)
Filter(type) ==
    /\ lastMatch' = [op |-> "filter", method |-> "", type |-> type, args |-> <<>>,
                     out |-> filter(selector, type)]
    /\ UNCHANGED selector
    /\ UNCHANGED selectorRest

\* selector.matches(method, type, ...args)
Matches(method, type, args) ==
    /\ lastMatch' = [op |-> "matches", method |-> method, type |-> type, args |-> args,
                     out |-> matches(selector, method, type, args)]
    /\ UNCHANGED selector
    /\ UNCHANGED selectorRest

NoSelector == [expression |-> Selector("*", "*", "", "", "", "", "none", "", ""),
               isStaticPointcut |-> TRUE]
NoMatch == [op |-> "none", method |-> "", type |-> "", args |-> <<>>, out |-> Undef]

IdleSelector ==
    /\ selector = NoSelector
    /\ lastMatch = NoMatch

\* ------------- pointcut/regexp-method-pointcut.ts: RegexpMethodPointcut
MaxPatterns == 2

\* The pattern strings handed to the constructor, and the method names the
\* pointcut is asked about, as their characters.
PatternSources == {"*", "m", "^n$", "x"}
PatternLists == UNION { [1..n -> PatternSources] : n \in 1..MaxPatterns }
MethodNames == { <<"m">>, <<"n">>, <<"m", "n">> }
RegexpArgs == { <<>>, <<Num(1)>> }

\* new RegExp(pattern): a quantifier with nothing to repeat is a SyntaxError.
IsValidRegExp(pattern) == pattern # "*"

\* RegExp.prototype.test of the patterns above on a name: a bare character
\* is searched anywhere in the name, ^n$ is the whole name.
RegExpTest(pattern, name) ==
    IF pattern = "^n$" THEN name = <<"n">>
    ELSE \E i \in 1..Len(name) : name[i] = pattern

\* arg.name of an actual argument: numbers have none.
NameOfArg(v) == IF v.t = "function" THEN v.s ELSE "undefined"

\* Reflect.getMetadata('design:paramnames', method) || [] : the compiler
\* emits no such metadata, so every index reads undefined.
DesignParamNames(i) == "undefined"

\* constructor(...patterns): patterns.map(pattern => new RegExp(pattern)).
NewPointcut(patterns) ==
    [patterns |-> patterns,
     made |-> IF \A i \in 1..Len(patterns) : IsValidRegExp(patterns[i])
              THEN "ret" ELSE "throw"]

\* get isRuntime(): false.
regexpIsRuntime == FALSE

\* matches(method, type, ...args).  The branch under `if (this.isRuntime)`
\* is the only one that assigns matchType.
regexpMatches(patterns, name, args) ==
    IF \E i \in 1..Len(patterns) : patterns[i] = "*" THEN TRUE
    ELSE LET typeMatched == FALSE
             tested == \E i \in 1..Len(patterns) : RegExpTest(patterns[i], name)
             methodMatched ==
                 IF Len(args) > 0
                 THEN tested /\ \A i \in 1..Len(args) : DesignParamNames(i) = NameOfArg(args[i])
                 ELSE tested
         IN  typeMatched /\ methodMatched

NewRegexpMethodPointcut ==
    /\ regexpPointcut.made = "no"
    /\ regexpPointcut' = NewPointcut(regexpPointcut.patterns)
    /\ UNCHANGED lastRegexpMatch
    /\ UNCHANGED regexpRest

RegexpMatches(method, type, args) ==
    /\ regexpPointcut.made = "ret"
    /\ lastRegexpMatch' = [op |-> "matches", method |-> method, type |-> type, args |-> args,
                           out |-> Bool(regexpMatches(regexpPointcut.patterns, method, args))]
    /\ UNCHANGED regexpPointcut
    /\ UNCHANGED regexpRest

NoRegexpMatch == [op |-> "none", method |-> <<>>, type |-> "", args |-> <<>>, out |-> Undef]

IdleRegexp ==
    /\ regexpPointcut = [patterns |-> <<>>, made |-> "no"]
    /\ lastRegexpMatch = NoRegexpMatch

\* ------------------------------------------- params.ts: getParameterNames
\* The 'argNames' metadata and the 'design:paramtypes' metadata (as the
\* names of the types) a method may carry when getParameterNames is called.
ParamsArgNames == { <<>>, <<"joinPoint">>, <<"a", "b">>, <<"a", "joinPoint", "result", "error">> }
ParamsParamTypes ==
    { NoParamTypes, [has |-> TRUE, names |-> <<>>], [has |-> TRUE, names |-> <<"String">>],
      [has |-> TRUE, names |-> <<"Number", "Number">>] }

\* getParameterNames(target, methodName), called directly.
GetParameterNames(c, k) ==
    /\ lastNames' = [called |-> TRUE, c |-> c, k |-> k, out |-> getParameterNames(c, k)]
    /\ UNCHANGED <<adviceVars, lastCall, weaverVars, disposed, factoryVars, parserVars,
                   selectorVars, regexpVars, advisorVars, adviceCall, frame>>

\* The last getParameterNames call: none yet.
NoNames == [called |-> FALSE, c |-> "A", k |-> "m", out |-> Unknown]

\* ------------------------------- advice.ts: the argument array of an advice
\* The argNames a decorator may be given, as their pieces.
AdviceNameLists ==
    { <<"joinPoint">>, <<"result">>, <<"error">>, <<"a", "b">>, <<"result", "a">>,
      <<"error", "joinPoint", "a">>, <<"a", "joinPoint", "result", "error">> }
AdviceCallArgs == { <<>>, <<Num(2), Num(3)>> }

\* What the wrapper of each kind has at hand besides the join point when it
\* builds the array: the value the original returned (afterReturning), the
\* error it caught (afterThrowing).
ExtraOf(kind, returned, raised) ==
    IF kind = "afterReturning" THEN returned
    ELSE IF kind = "afterThrowing" THEN raised
    ELSE Undef

NoAdviceCall == [kind |-> "before", names |-> <<>>, args |-> <<>>, built |-> FALSE,
                 adviceArgs |-> <<>>]

\* paramNames.map(name => ...) in the wrapper of adviceCall.kind, for a call
\* n(args) on an A whose original returns 10 or throws E.
BuildAdviceArgs ==
    /\ ~adviceCall.built
    /\ adviceCall' =
           [adviceCall EXCEPT
               !.built = TRUE,
               !.adviceArgs = AdviceArgs(adviceCall.kind, adviceCall.names,
                                         JoinPoint("A", "n", adviceCall.args), adviceCall.args,
                                         ExtraOf(adviceCall.kind, Num(10), Err("E")))]
    /\ UNCHANGED <<adviceVars, lastCall, weaverVars, disposed, factoryVars, parserVars,
                   selectorVars, regexpVars, lastNames, advisorVars, frame>>

\* ------------------------------------------------- advice.ts: Advisor
\* An Advisor object: what its pointcut is and answers, what its advice
\* does, and the flag behind the `executed` accessor.
AdvisorObject(a, executed) == [a |-> a, executed |-> executed]

Advisors ==
    { Advisor(isClass, isMethod, flt, FALSE, exe, out) :
        isClass \in BOOLEAN, isMethod \in BOOLEAN, flt \in BOOLEAN, exe \in BOOLEAN,
        out \in {Ret(Num(99)), Throw(Err("AE"))} }
ExecuteArgs == { <<>>, <<Num(1)>> }

\* Advisor.execute without `this.executed = false`.
AdvisorExecuteKeepingFlag(adv, joinPoint, args) ==
    IF adv.a.isClass /\ adv.a.flt
    THEN [executed |-> TRUE, calls |-> <<[scope |-> joinPoint.o, args |-> args]>>,
          out |-> adv.a.out]
    ELSE IF adv.a.isMethod /\ adv.a.exe
    THEN [executed |-> TRUE, calls |-> <<[scope |-> joinPoint.o, args |-> args]>>,
          out |-> adv.a.out]
    ELSE [executed |-> adv.executed, calls |-> <<>>, out |-> Ret(Undef)]

\* Advisor.execute(joinPoint, ...args): the flag it leaves, the calls of
\* the advice it made (receiver and arguments) and its outcome.
AdvisorExecute(adv, joinPoint, args) ==
    IF adv.a.isClass /\ adv.a.flt
    THEN [executed |-> TRUE, calls |-> <<[scope |-> joinPoint.o, args |-> args]>>,
          out |-> adv.a.out]
    ELSE IF adv.a.isMethod /\ adv.a.exe
    THEN [executed |-> TRUE, calls |-> <<[scope |-> joinPoint.o, args |-> args]>>,
          out |-> adv.a.out]
    ELSE [executed |-> FALSE, calls |-> <<>>, out |-> Ret(Undef)]

Execute(joinPoint, args) ==
    LET r == AdvisorExecute(advisor, joinPoint, args)
    IN  /\ advisor' = AdvisorObject(advisor.a, r.executed)
        /\ lastExecute' = [called |-> TRUE, joinPoint |-> joinPoint, args |-> args,
                           calls |-> r.calls, out |-> r.out]
        /\ UNCHANGED <<adviceVars, lastCall, weaverVars, disposed, factoryVars, parserVars,
                       selectorVars, regexpVars, lastNames, adviceCall, frame>>

NoExecute == [called |-> FALSE, joinPoint |-> Undef, args |-> <<>>, calls |-> <<>>, out |-> NoOut]

\* set executed(value); the record of the last execute no longer describes the flag.
SetExecuted(value) ==
    /\ advisor' = AdvisorObject(advisor.a, value)
    /\ lastExecute' = NoExecute
    /\ UNCHANGED <<adviceVars, lastCall, weaverVars, disposed, factoryVars, parserVars,
                   selectorVars, regexpVars, lastNames, adviceCall, frame>>

IdleAdvisor ==
    /\ advisor = AdvisorObject(Advisor(FALSE, FALSE, FALSE, FALSE, FALSE, Ret(Undef)), FALSE)
    /\ lastExecute = NoExecute

\* ------------------------------ join-point.ts and the wrapper of Before
\* One activation of the wrapper Before installs, on a class without
\* advisors, taken advice by advice.  Arrays are objects: the heap maps a
\* reference to the elements of the array it denotes.
MaxMatching == 2
Refs == {1, 2}
FrameArgs == { <<>>, <<Num(1)>>, <<Num(1), Num(2)>>, <<Num(2), Num(1)>> }

\* What the body of an advice does with the array joinPoint.args gives it.
Effects == {"read", "set", "push", "clear"}

NoFrame ==
    [st |-> "idle", heap |-> [r \in Refs |-> <<>>], args |-> 1,
     joinPoint |-> [privateTarget |-> "", privateMethod |-> "", privateArgs |-> 1],
     n |-> 0, next |-> 1, given |-> <<>>, seen |-> <<>>, received |-> <<>>]

\* new JoinPoint(target, method, args): `args || []` keeps the array it is
\* given, an empty array too; fresh is the array `[]` would allocate.
NewJoinPoint(target, method, hasArgs, args, fresh) ==
    [privateTarget |-> target, privateMethod |-> method,
     privateArgs |-> IF hasArgs THEN args ELSE fresh]

\* get args(): the array the join point holds, not a copy of it.
JoinPointArgs(jp) == jp.privateArgs

\* a[0] = 99, a.push(99), a.length = 0 on the elements of an array.
Mutate(elements, effect) ==
    CASE effect = "read" -> elements
      [] effect = "set" -> IF elements = <<>> THEN <<Num(99)>>
                           ELSE [elements EXCEPT ![1] = Num(99)]
      [] effect = "push" -> Append(elements, Num(99))
      [] effect = "clear" -> <<>>

\* The wrapper is entered with the rest parameter `args`; n records of the
\* class carry the pointcut of the wrapper.
EnterBefore(args, n) ==
    /\ frame.st = "idle"
    /\ frame' = [st |-> "advices",
                 heap |-> [r \in Refs |-> IF r = 1 THEN args ELSE <<>>],
                 args |-> 1,
                 joinPoint |-> NewJoinPoint("A", "n", TRUE, 1, 2),
                 n |-> n, next |-> 1, given |-> args, seen |-> <<>>, received |-> <<>>]
    /\ UNCHANGED <<adviceVars, lastCall, weaverVars, disposed, factoryVars, parserVars,
                   selectorVars, regexpVars, lastNames, advisorVars, adviceCall>>

\* One matching record of beforeAdvices.forEach with argNames 'joinPoint':
\* the advice is applied to the join point of the call, reads its args and
\* does to them what its body says.
RunBeforeAdvice(effect) ==
    /\ frame.st = "advices"
    /\ frame.next <= frame.n
    /\ LET a == JoinPointArgs(frame.joinPoint)
       IN  frame' = [frame EXCEPT !.seen = Append(@, frame.heap[a]),
                                  !.heap[a] = Mutate(@, effect),
                                  !.next = @ + 1]
    /\ UNCHANGED <<adviceVars, lastCall, weaverVars, disposed, factoryVars, parserVars,
                   selectorVars, regexpVars, lastNames, advisorVars, adviceCall>>

\* After the last record, with no advisor: originalMethod.apply(this, args).
ApplyOriginal ==
    /\ frame.st = "advices"
    /\ frame.next > frame.n
    /\ frame' = [frame EXCEPT !.st = "done", !.received = frame.heap[frame.args]]
    /\ UNCHANGED <<adviceVars, lastCall, weaverVars, disposed, factoryVars, parserVars,
                   selectorVars, regexpVars, lastNames, advisorVars, adviceCall>>

Init ==
    /\ InitCommon
    /\ IdleParser
    /\ IdleSelector
    /\ IdleRegexp
    /\ lastNames = NoNames
    /\ IdleAdvisor
    /\ adviceCall = NoAdviceCall
    /\ frame = NoFrame
    /\ argNamesMeta \in ArgNamesMeta
    /\ advisors \in AdvisorLists
    /\ argNamesMeta = <<>> \/ advisors = <<>>

Next ==
    \/ \E kind \in Kinds, pc \in Pointcuts, an \in ArgNameStrings,
          c \in AdviceClasses, k \in Keys : ApplyDecorator(kind, pc, an, c, k)
    \/ \E c \in AdviceClasses, k \in Keys : DefineProperty(c, k)
    \/ \E c \in AdviceClasses, k \in Keys, env \in Envs : Call(c, k, env)

Spec == Init /\ [][Next]_vars

\* The weaver: boots, calls on every class, dispose.
InitWeaver ==
    /\ InitCommon
    /\ IdleParser
    /\ IdleSelector
    /\ IdleRegexp
    /\ lastNames = NoNames
    /\ IdleAdvisor
    /\ adviceCall = NoAdviceCall
    /\ frame = NoFrame
    /\ argNamesMeta = <<>>
    /\ advisors = <<>>

PlainEnvs == { [orig |-> "ret", adv |-> "ret"], [orig |-> "throw", adv |-> "ret"] }

NextWeaver ==
    \/ \E config \in AopConfigs : BootStart(config)
    \/ BootAspect
    \/ Dispose
    \/ \E c \in Classes, k \in Keys, env \in PlainEnvs : Call(c, k, env)

SpecWeaver == InitWeaver /\ [][NextWeaver]_vars

\* The weaver booted, disposed and booted again, on configurations whose
\* modules load, whose pointcuts resolve and whose methods exist.
RebootConfigs ==
    { [flags |-> f, pointcuts |-> <<PointcutConfig("g", "P")>>, aspects |-> a] :
          f \in { fl \in FlagSets : ~fl.frozen },
          a \in { <<AspectA>>, <<AspectB>>, <<AspectA, AspectB>>, <<AspectB, AspectA>> } }

NextReboot ==
    \/ \E config \in RebootConfigs : Reboot(config)
    \/ BootAspect
    \/ Dispose
    \/ \E c \in Classes, k \in Keys, env \in PlainEnvs : Call(c, k, env)

SpecReboot == InitWeaver /\ [][NextReboot]_vars

\* Boots of aspects that declare pointcuts of their own.  AspectLocal, order
\* 1, declares x and g and refers to x; AspectRefX, order 2, refers to x and
\* declares nothing; AspectB refers to g.
AspectLocal ==
    AspectConfig("A", TRUE, 1, <<PointcutConfig("x", "Q"), PointcutConfig("g", "Q")>>,
        <<AdviceConfig("before", "n", "", "x", <<"a">>, <<>>, <<>>)>>)
AspectRefX ==
    AspectConfig("B", TRUE, 2, <<>>,
        <<AdviceConfig("after", "m", "", "x", <<>>, <<>>, <<>>)>>)

LocalConfigs ==
    { [flags |-> f, pointcuts |-> p, aspects |-> a] :
          f \in { fl \in FlagSets : ~fl.frozen },
          p \in { <<>>, <<PointcutConfig("g", "P")>> },
          a \in UNION { [1..n -> {AspectLocal, AspectRefX, AspectB}] : n \in 0..MaxAspects } }

NextLocal ==
    \/ \E config \in LocalConfigs : BootStart(config)
    \/ BootAspect
    \/ Dispose
    \/ \E c \in Classes, k \in Keys, env \in PlainEnvs : Call(c, k, env)

SpecLocal == InitWeaver /\ [][NextLocal]_vars

\* One ProxyFactory driven through its public members.
InitFactory ==
    /\ InitWeaver

NextFactory ==
    \/ \E advice \in AdviceFns : AddAdvice(advice)
    \/ \E interfaceType \in InterfaceFns : AddInterface(interfaceType)
    \/ \E b \in BOOLEAN : setFrozen(b)
    \/ \E b \in BOOLEAN : setUseCglib(b)
    \/ \E b \in BOOLEAN : setUseAspectJ(b)
    \/ \E b \in BOOLEAN : setExposeProxy(b)
    \/ GetProxy
    \/ FactoryDispose
    \/ \E value \in FactoryTargets : SetProxy(value)
    \/ \E h \in 1..Len(handles) : Access(h)

SpecFactory == InitFactory /\ [][NextFactory]_vars

\* The parser applied to drawn expressions, under a registry that changes.
InitParser ==
    /\ InitCommon
    /\ argNamesMeta = <<>>
    /\ advisors = <<>>
    /\ IdleSelector
    /\ IdleRegexp
    /\ lastNames = NoNames
    /\ IdleAdvisor
    /\ adviceCall = NoAdviceCall
    /\ frame = NoFrame
    /\ pcExpression \in Expressions
    /\ registry = FullRegistry
    /\ parses = <<>>
    /\ evals = <<>>

NextParser ==
    \/ Parse
    \/ Evaluate
    \/ setPointcut("C", UserOf("C"))
    \/ deletePointcut("C")

SpecParser == InitParser /\ [][NextParser]_vars

\* new PointcutSelector(expression, isStaticPointcut), then asked.
InitSelector ==
    /\ InitCommon
    /\ argNamesMeta = <<>>
    /\ advisors = <<>>
    /\ IdleParser
    /\ IdleRegexp
    /\ lastNames = NoNames
    /\ IdleAdvisor
    /\ adviceCall = NoAdviceCall
    /\ frame = NoFrame
    /\ selector \in [expression : SelectorStrings, isStaticPointcut : BOOLEAN]
    /\ lastMatch = NoMatch

NextSelector ==
    \/ \E type \in SelectorTypes : Filter(type)
    \/ \E method \in SelectorMethods, type \in SelectorTypes, args \in RestArgs :
           Matches(method, type, args)

SpecSelector == InitSelector /\ [][NextSelector]_vars

\* new RegexpMethodPointcut(...patterns), then asked.
InitRegexp ==
    /\ InitCommon
    /\ argNamesMeta = <<>>
    /\ advisors = <<>>
    /\ IdleParser
    /\ IdleSelector
    /\ lastNames = NoNames
    /\ IdleAdvisor
    /\ adviceCall = NoAdviceCall
    /\ frame = NoFrame
    /\ regexpPointcut \in [patterns : PatternLists, made : {"no"}]
    /\ lastRegexpMatch = NoRegexpMatch

NextRegexp ==
    \/ NewRegexpMethodPointcut
    \/ \E method \in MethodNames, type \in SelectorTypes, args \in RegexpArgs :
           RegexpMatches(method, type, args)

SpecRegexp == InitRegexp /\ [][NextRegexp]_vars

\* One Advisor, executed again and again at drawn join points.
InitAdvisor ==
    /\ InitCommon
    /\ argNamesMeta = <<>>
    /\ advisors = <<>>
    /\ IdleParser
    /\ IdleSelector
    /\ IdleRegexp
    /\ lastNames = NoNames
    /\ adviceCall = NoAdviceCall
    /\ frame = NoFrame
    /\ advisor \in { AdvisorObject(a, FALSE) : a \in Advisors }
    /\ lastExecute = NoExecute

NextAdvisor ==
    \/ \E c \in AdviceClasses, k \in Keys, args \in ExecuteArgs :
           Execute(JoinPoint(c, k, CallArgs(k)), args)
    \/ \E value \in BOOLEAN : SetExecuted(value)

SpecAdvisor == InitAdvisor /\ [][NextAdvisor]_vars

\* One advice record fired by the wrapper of a drawn kind.
InitAdviceArgs ==
    /\ InitCommon
    /\ argNamesMeta = <<>>
    /\ advisors = <<>>
    /\ IdleParser
    /\ IdleSelector
    /\ IdleRegexp
    /\ lastNames = NoNames
    /\ IdleAdvisor
    /\ adviceCall \in [kind : Kinds, names : AdviceNameLists, args : AdviceCallArgs,
                       built : {FALSE}, adviceArgs : {<<>>}]
    /\ frame = NoFrame

NextAdviceArgs == BuildAdviceArgs

SpecAdviceArgs == InitAdviceArgs /\ [][NextAdviceArgs]_vars

\* getParameterNames on declared methods under drawn metadata.
InitParams ==
    /\ wrappers = <<>>
    /\ bucket = [c \in Classes |-> [kd \in Kinds |-> <<>>]]
    /\ proto = [c \in Classes |-> [k \in Keys |-> BaseFn(c, k)]]
    /\ desc = [c \in Classes |-> [k \in Keys |-> BaseFn(c, k)]]
    /\ argNamesMeta \in ParamsArgNames
    /\ paramTypes \in ParamsParamTypes
    /\ advisors = <<>>
    /\ lastCall = NoCall
    /\ pointcuts = NoPointcuts
    /\ flags = NoFlags
    /\ proxies = <<>>
    /\ boot = Idle
    /\ completion = NoPromise
    /\ processed = <<>>
    /\ boots = 0
    /\ firstBoot = NoFirstBoot
    /\ disposed = <<>>
    /\ factory = ProxyFactory("A", NoFlags, <<>>)
    /\ handles = <<>>
    /\ lastOp = NoOp
    /\ IdleParser
    /\ IdleSelector
    /\ IdleRegexp
    /\ IdleAdvisor
    /\ adviceCall = NoAdviceCall
    /\ frame = NoFrame
    /\ lastNames = NoNames

NextParams == \E c \in Classes, k \in Keys : GetParameterNames(c, k)

SpecParams == InitParams /\ [][NextParams]_vars

\* Calls of a Before wrapper whose advices take the join point.
InitJoinPoint ==
    /\ InitCommon
    /\ argNamesMeta = <<>>
    /\ advisors = <<>>
    /\ IdleParser
    /\ IdleSelector
    /\ IdleRegexp
    /\ lastNames = NoNames
    /\ IdleAdvisor
    /\ adviceCall = NoAdviceCall
    /\ frame = NoFrame

NextJoinPoint ==
    \/ \E args \in FrameArgs, n \in 1..MaxMatching : EnterBefore(args, n)
    \/ \E effect \in Effects : RunBeforeAdvice(effect)
    \/ ApplyOriginal

SpecJoinPoint == InitJoinPoint /\ [][NextJoinPoint]_vars

\* ------------------------------------------------- reading a call's trace
\* The last call entered the wrapper a decorator of this kind installed.
IsCallOf(kind) ==
    /\ lastCall.called
    /\ lastCall.fn.w # 0
    /\ wrappers[lastCall.fn.w].kind = kind

\* The positions of the events named e of the outermost frame of the call.
TopEvents(e) ==
    {p \in 1..Len(lastCall.log) : lastCall.log[p].e = e /\ lastCall.log[p].d = 0}

\* The positions at which record i of the bucket of this kind of class c
\* starts to run, in any frame.
Firings(kind, c, i) ==
    {p \in 1..Len(lastCall.log) :
        /\ lastCall.log[p].e = "advBegin"
        /\ lastCall.log[p].c = c
        /\ lastCall.log[p].i = i
        /\ wrappers[lastCall.log[p].w].kind = kind}

\* The positions at which a declared method body runs as the original.
BodyRuns == {p \in 1..Len(lastCall.log) : lastCall.log[p].e = "body"}

\* Every wrapper can resolve its parameter names.
Resolvable ==
    \A w \in 1..Len(wrappers) : wrappers[w].argNames # <<>> \/ argNamesMeta # <<>>

\* Every advice record holds a declared method (not a wrapper), as it does
\* when the decorators are written on the methods of a class.
AdviceIsDeclared ==
    \A c \in Classes, kind \in Kinds :
        \A i \in 1..Len(bucket[c][kind]) : bucket[c][kind][i].method.w = 0

\* The outcome of the declared method body called as the original.
OriginalOutcome(env) == IF env.orig = "ret" THEN Ret(Num(10)) ELSE Throw(Err("E"))

\* The arguments an advice got at position p bind `name` to v wherever the
\* parameter names of the wrapper list that name.
Binds(p, name, v) ==
    LET pn == ParamNames(wrappers[lastCall.log[p].w])
    IN  \A j \in 1..Len(pn.names) :
            pn.names[j] = name => lastCall.log[p].a[j] = v

\* ------------------------------------------------------------ the claims

\* C1: a call of a method wrapped by Before, with or without argNames and
\* for any arity, runs the matching before advice to its end before the
\* original body starts, and when no advisor fires the caller receives the
\* original's return value.  Stated for a method decorated once, an advice
\* that returns normally and a class without advisors.
C1_BeforeRunsFirstThenOriginal ==
    (/\ IsCallOf("before")
     /\ Len(wrappers) = 1
     /\ advisors = <<>>
     /\ lastCall.env = [orig |-> "ret", adv |-> "ret"])
    => /\ TopEvents("advEnd") # {}
       /\ \A p \in TopEvents("advEnd"), q \in TopEvents("origBegin") : p < q
       /\ lastCall.out = Ret(Num(10))

\* C2: a call of a method wrapped by AfterReturning runs the original
\* first; the advice runs if and only if the original returned normally; it
\* gets the JoinPoint with the actual arguments and the return value under
\* the name `result`; the caller observes the original's return value.
C2_AfterReturningRunsOnReturnOnly ==
    (/\ IsCallOf("afterReturning")
     /\ Len(wrappers) = 1
     /\ advisors = <<>>
     /\ lastCall.env.adv = "ret")
    => /\ lastCall.env.orig = "throw" => TopEvents("advBegin") = {}
       /\ lastCall.env.orig = "ret" =>
            /\ TopEvents("advBegin") # {}
            /\ \A p \in TopEvents("advBegin") :
                 /\ \A q \in TopEvents("origEnd") : q < p
                 /\ Binds(p, "joinPoint", JoinPoint(lastCall.fn.c, lastCall.fn.k, lastCall.args))
                 /\ Binds(p, "result", Num(10))
       /\ lastCall.out = OriginalOutcome(lastCall.env)

\* C3: a call of a method wrapped by AfterThrowing runs the advice if and
\* only if the original terminated abruptly; the advice gets the exception E
\* under the name `error`; when the advice returns normally the caller
\* observes E re-raised, and on a normal return the original's value.
C3_AfterThrowingRunsOnThrowOnly ==
    (/\ IsCallOf("afterThrowing")
     /\ Len(wrappers) = 1
     /\ advisors = <<>>
     /\ lastCall.env.adv = "ret")
    => /\ lastCall.env.orig = "ret" => TopEvents("advBegin") = {}
       /\ lastCall.env.orig = "throw" =>
            /\ TopEvents("advBegin") # {}
            /\ \A p \in TopEvents("advBegin") :
                 /\ \A q \in TopEvents("origEnd") : q < p
                 /\ Binds(p, "error", Err("E"))
       /\ lastCall.out = OriginalOutcome(lastCall.env)

\* C4: a call of a method wrapped by After runs the after advice exactly
\* once, after the original has completed, whether it returned or threw,
\* and the caller observes the original's outcome, for any installation
\* history on the class.  Stated for histories written with decorators on
\* methods, resolvable parameter names and an advice that returns normally.
C4_AfterRunsExactlyOnce ==
    (/\ IsCallOf("after")
     /\ Resolvable
     /\ AdviceIsDeclared
     /\ advisors = <<>>
     /\ lastCall.env.adv = "ret")
    => /\ \A i \in 1..Len(bucket[lastCall.fn.c]["after"]) :
            bucket[lastCall.fn.c]["after"][i].pointcut = wrappers[lastCall.fn.w].pointcut
                => Cardinality(Firings("after", lastCall.fn.c, i)) = 1
       /\ \A p \in TopEvents("advBegin"), q \in TopEvents("origEnd") : q < p
       /\ lastCall.out = OriginalOutcome(lastCall.env)

\* C5: a call of a method wrapped by Around runs the advice instead of the
\* original: the original body runs only when the advice calls the proceed
\* thunk, with the original actuals, and the caller observes the advice's
\* return value (proceed() + 1 over an original returning 10 gives 11).
C5_AroundRunsInsteadOfOriginal ==
    (/\ IsCallOf("around")
     /\ Len(wrappers) = 1
     /\ advisors = <<>>
     /\ lastCall.env.orig = "ret"
     /\ lastCall.env.adv \in {"ret", "proceed"})
    => /\ TopEvents("advBegin") # {}
       /\ lastCall.env.adv = "ret" => BodyRuns = {} /\ lastCall.out = Ret(Num(7))
       /\ lastCall.env.adv = "proceed" =>
            /\ Cardinality(BodyRuns) = 1
            /\ \A p \in BodyRuns : lastCall.log[p].a = lastCall.args
            /\ lastCall.out = Ret(Num(11))

\* C6: for every kind and class, the records of that kind fire during one
\* call in the order in which they were installed, for any sequence of
\* installations: a record installed later does not start before a record
\* installed earlier that fires in the same call.
C6_FiringOrderIsInstallationOrder ==
    (/\ lastCall.called
     /\ Resolvable
     /\ AdviceIsDeclared
     /\ advisors = <<>>
     /\ lastCall.env.adv = "ret")
    => \A kind \in Kinds, c \in Classes :
         \A i, j \in 1..Len(bucket[c][kind]) :
            (i < j /\ Firings(kind, c, i) # {} /\ Firings(kind, c, j) # {})
                => \E p \in Firings(kind, c, i) : \A q \in Firings(kind, c, j) : p < q

\* ---------------------------------------------------- reading a boot
\* The call sites the pointcut texts of the fixture designate: P is
\* "execution(* T.m(..))" and Q is "execution(* T.n(..))".
Designates(pc, c, k) ==
    \/ pc = "P" /\ c = "T" /\ k = "m"
    \/ pc = "Q" /\ c = "T" /\ k = "n"

\* The ids the configuration of the boot registers globally.
GlobalIds == {boot.globals[i].id : i \in 1..Len(boot.globals)}

\* The ids the aspect at position q of the sorted list registers.
LocalIds(q) ==
    {boot.queue[q].cfg.pointcuts[l].id : l \in 1..Len(boot.queue[q].cfg.pointcuts)}

\* Advice j of the aspect at position q has no inline pointcut and refers to
\* an id registered neither globally nor by an aspect up to position q.
Dangling(q, j) ==
    LET ac == boot.queue[q].cfg.advices[j]
    IN  /\ ac.pointcut = ""
        /\ ac.pointcutRef \notin GlobalIds
        /\ \A r \in 1..q : ac.pointcutRef \notin LocalIds(r)

\* Every module of the configuration loads, every aspect class has a
\* superclass and every advice method exists on its prototype.
WellFormedAspects ==
    \A q \in 1..Len(boot.queue) :
        /\ boot.queue[q].cfg.ref \in Modules \ PlainClasses
        /\ \A j \in 1..Len(boot.queue[q].cfg.advices) :
               boot.queue[q].cfg.advices[j].method \in Keys

IsAdviceBody(e) == e.e = "adviceBody"

\* The classes of the advice bodies a call ran, in the order they ran.
AdviceOwners(log) ==
    LET sel == SelectSeq(log, IsAdviceBody)
    IN  [i \in 1..Len(sel) |-> sel[i].c]

\* C7: Weaver.boot handles the aspects in ascending order, an absent order
\* counting as 0 and equal orders keeping their input order; every aspect is
\* handled in a step of its own, which ends before the next one starts.
C7_AspectsWovenInAscendingOrder ==
    /\ Len(processed) <= Len(boot.input)
    /\ \A i \in 1..Len(processed) : processed[i].pos \in 1..Len(boot.input)
    /\ \A i, j \in 1..Len(processed) :
         i < j =>
            LET x == boot.input[processed[i].pos]
                y == boot.input[processed[j].pos]
                ox == IF x.hasOrder THEN x.order ELSE 0
                oy == IF y.hasOrder THEN y.order ELSE 0
            IN  \/ ox < oy
                \/ ox = oy /\ processed[i].pos < processed[j].pos
    /\ boot.st = "done" => Len(processed) = Len(boot.input)

\* A boot has woven two aspects, the first of which came second in the
\* input and has no order, the other one having a positive order.
C7_Witness ==
    /\ boot.st = "done"
    /\ Len(processed) = 2
    /\ processed[1].pos = 2 /\ processed[2].pos = 1
    /\ processed[1].weaved /\ processed[2].weaved
    /\ ~boot.input[2].hasOrder
    /\ boot.input[1].hasOrder /\ boot.input[1].order > 0

\* C8: a configuration with an advice without inline pointcut whose
\* pointcutRef is registered neither globally nor by an aspect woven so far
\* makes the promise of Weaver.boot fail with the reference error that names
\* the missing id, and never lets it resolve.  Stated for configurations in
\* which every module loads and every advice method exists.
C8_DanglingRefRejectsWithReferenceError ==
    (/\ boot.st = "done"
     /\ WellFormedAspects
     /\ \E q \in 1..Len(boot.queue) :
            \E j \in 1..Len(boot.queue[q].cfg.advices) : Dangling(q, j))
    => /\ completion.st = "rejected"
       /\ completion.err.s = "ReferenceError: Pointcut not found"
       /\ \E q \in 1..Len(boot.queue) :
            \E j \in 1..Len(boot.queue[q].cfg.advices) :
                /\ Dangling(q, j)
                /\ completion.err.o = boot.queue[q].cfg.advices[j].pointcutRef

\* C9: when a boot whose configuration has an advice on a named pointcut
\* has completed successfully, every later call at a call site the pointcut
\* designates runs that advice.
C9_ResolvedBootRunsAdvice ==
    (/\ completion.st = "resolved"
     /\ lastCall.called)
    => \A q \in 1..Len(boot.queue) :
         \A j \in 1..Len(boot.queue[q].cfg.advices) :
            LET a == boot.queue[q].cfg
                ac == a.advices[j]
            IN  (/\ ac.pointcut = ""
                 /\ ac.pointcutRef \in Ids
                 /\ pointcuts[ac.pointcutRef] # ""
                 /\ Designates(pointcuts[ac.pointcutRef], lastCall.fn.c, lastCall.fn.k))
                => \E p \in 1..Len(lastCall.log) :
                      /\ lastCall.log[p].e = "adviceBody"
                      /\ lastCall.log[p].c = a.ref
                      /\ lastCall.log[p].k = ac.method

\* C10: with aspect A (order 1) and aspect B (order 2) booted from one
\* configuration, each with a before advice on the pointcut of method m, one
\* call of m runs the advice of A and then the advice of B, once each.
C10_TwoAspectsFireInOrder ==
    (/\ completion.st = "resolved"
     /\ Len(boot.queue) = 2
     /\ boot.queue[1].cfg = AspectA
     /\ boot.queue[2].cfg = AspectB
     /\ lastCall.called
     /\ Designates("P", lastCall.fn.c, lastCall.fn.k))
    => AdviceOwners(lastCall.log) = <<"A", "B">>

\* The errors Weaver.boot reports for a missing pointcut, a missing advice
\* method and a missing module.
IsReferenceFailure(out) ==
    /\ out.k = "throw"
    /\ out.v.s \in {"ReferenceError: Pointcut not found",
                   "ReferenceError: Method not found in aspect",
                   "Error: Cannot find module"}

\* C11: Weaver.boot fails fast: once an aspect has raised a reference error
\* (missing pointcut, missing method, missing module), no later aspect of
\* the sorted list is loaded, given a factory, added to the live set or
\* woven.
C11_BootFailsFast ==
    \A i, j \in 1..Len(processed) :
        (i < j /\ IsReferenceFailure(processed[i].out)) => FALSE

\* C12: for every configuration in which all modules load, every
\* pointcutRef resolves and every advice method exists, the promise of
\* Weaver.boot resolves, whatever the policy flags are (in particular with
\* frozen = true and an aspect that has an advice).
C12_WellFormedBootResolves ==
    (/\ boot.st = "done"
     /\ WellFormedAspects
     /\ \A q \in 1..Len(boot.queue) :
            \A j \in 1..Len(boot.queue[q].cfg.advices) : ~Dangling(q, j))
    => completion.st = "resolved"


\* -------------------------------------------------- reading the factory
IsPolicyViolation(out) ==
    /\ out.k = "throw"
    /\ out.v.s = "TypeError: Cannot modify a frozen proxy configuration"

\* C13: while the factory is frozen, addAdvice and addInterface each raise the
\* policy-violation error and leave the advice list and the interface list as
\* they were; while it is not frozen each appends its argument at the end of
\* its own list (and leaves the other list alone).
C13_FrozenRejectsAdditions ==
    [][/\ \A advice \in AdviceFns : AddAdvice(advice) =>
            IF factory.frozen
            THEN /\ IsPolicyViolation(lastOp'.out)
                 /\ factory'.advices = factory.advices
                 /\ factory'.interfaces = factory.interfaces
            ELSE /\ lastOp'.out.k = "ret"
                 /\ factory'.advices = Append(factory.advices, advice)
                 /\ factory'.interfaces = factory.interfaces
       /\ \A interfaceType \in InterfaceFns : AddInterface(interfaceType) =>
            IF factory.frozen
            THEN /\ IsPolicyViolation(lastOp'.out)
                 /\ factory'.advices = factory.advices
                 /\ factory'.interfaces = factory.interfaces
            ELSE /\ lastOp'.out.k = "ret"
                 /\ factory'.interfaces = Append(factory.interfaces, interfaceType)
                 /\ factory'.advices = factory.advices]_vars

\* A frozen factory that took an advice and an interface before it was
\* frozen has just refused an addition.
C13_Witness ==
    /\ factory.frozen
    /\ Len(factory.advices) > 0
    /\ Len(factory.interfaces) > 0
    /\ lastOp.op \in {"addAdvice", "addInterface"}
    /\ IsPolicyViolation(lastOp.out)

\* A factory in the state dispose() leaves it in.
IsDisposed(f) ==
    /\ f.target = "null"
    /\ f.advices = <<>>
    /\ f.interfaces = <<>>
    /\ f.revocableProxy = 0
    /\ ~f.useCglib /\ ~f.useAspectJ /\ ~f.frozen /\ ~f.exposeProxy

\* C14: when Weaver.dispose completes, whatever boots came before, every
\* factory that was in the live proxy set has been disposed, the live set is
\* empty, the named-pointcut registry is empty and the four flags are false.
C14_DisposeResetsTheWeaver ==
    [][Dispose =>
        /\ Len(disposed') = Len(disposed) + Len(proxies)
        /\ \A i \in 1..Len(disposed') : IsDisposed(disposed'[i])
        /\ proxies' = <<>>
        /\ \A id \in DOMAIN pointcuts' : pointcuts'[id] = ""
        /\ ~flags'.useCglib /\ ~flags'.useAspectJ
        /\ ~flags'.frozen /\ ~flags'.exposeProxy]_vars

\* A dispose after a finished boot that had registered global pointcuts and
\* put a factory in the live set.
C14_Witness ==
    /\ boot.st = "done"
    /\ boot.globals # <<>>
    /\ Len(disposed) > 0
    /\ proxies = <<>>
    /\ \A id \in DOMAIN pointcuts : pointcuts[id] = ""
    /\ flags = NoFlags

\* C15: in transparent-proxy mode (not AspectJ style, not class proxy, an
\* interface declared) every handle the `proxy` accessor handed out before
\* dispose() fails on an access made after dispose(), each of them when
\* `proxy` was read several times, whatever the frozen flag.
C15_HandlesFailAfterDispose ==
    (/\ lastOp.op = "access"
     /\ handles[lastOp.h].mode = "dynamic"
     /\ handles[lastOp.h].stale)
    => lastOp.out.k = "throw"

\* --------------------------------------------------- reading the parser
\* A word that is a primitive: one of the ten names, its parenthesised body,
\* and nothing else.
IsPrimitive(token) ==
    /\ token.prefix \in PrimitivePrefixes
    /\ token.closed
    /\ token.rest = ""

\* A word that is neither an operator, nor a name registered in reg, nor a
\* primitive.
Offending(token, reg) ==
    /\ token.text \notin {"&&", "||", "!"}
    /\ ~hasPointcut(reg, token.text)
    /\ ~IsPrimitive(token)

\* A word that stands for a predicate under reg, and what that predicate
\* answers for a candidate.
IsPredicate(token, reg) == hasPointcut(reg, token.text) \/ IsPrimitive(token)
OperandHolds(token, reg, x) ==
    IF hasPointcut(reg, token.text) THEN UserHolds(reg[token.text].id, x)
    ELSE PrimitiveHolds(Prim(token.prefix, token.body), x)

Gives(out, b) == out.k = "ret" /\ out.v = Bool(b)
LastParse == parses[Len(parses)]

\* C16: parse raises an error that names the offending token whenever the
\* expression holds a whitespace-separated token that is not `&&`, `||`, `!`,
\* a registered pointcut name or one of the ten primitives, and returns no
\* predicate then.
C16_UnknownTokenRaisesParseError ==
    \A i \in 1..Len(parses) :
        LET tokens == Split(pcExpression)
            bad == {j \in 1..Len(tokens) : Offending(tokens[j], parses[i].reg)}
        IN  bad # {} =>
                /\ parses[i].out.k = "throw"
                /\ \E j \in bad : parses[i].out.v.o = tokens[j].text

\* C17: `!` negates the predicate that follows it: parse("! P")(x) is not
\* P(x), and parse("Q && ! P")(x) is Q(x) and not P(x), for all predicates P
\* and Q and every candidate x.
C17_NotNegatesTheNextPredicate ==
    (/\ Len(evals) > 0
     /\ \A j \in 1..Len(pcExpression) :
            pcExpression[j].text \in {"&&", "||", "!"}
            \/ IsPredicate(pcExpression[j], LastParse.reg))
    => /\ (Len(pcExpression) = 2 /\ pcExpression[1] = NotToken) =>
              \A x \in Candidates :
                  Gives(evals[1][x], ~OperandHolds(pcExpression[2], LastParse.reg, x))
       /\ (/\ Len(pcExpression) = 4
           /\ pcExpression[2] = AndToken
           /\ pcExpression[3] = NotToken) =>
              \A x \in Candidates :
                  Gives(evals[1][x],
                        /\ OperandHolds(pcExpression[1], LastParse.reg, x)
                        /\ ~OperandHolds(pcExpression[4], LastParse.reg, x))

\* The value of `l operator r`.
Connect(operator, l, r) == IF operator = AndToken THEN l /\ r ELSE l \/ r

\* C18: `&&` and `||` mixed in one expression combine strictly left to right
\* with equal precedence: parse("A o1 B o2 C")(x) is (A(x) o1 B(x)) o2 C(x)
\* for all predicates A, B, C and every candidate x, so that every operand
\* takes part in the result.
C18_LeftToRightEqualPrecedence ==
    (/\ Len(evals) > 0
     /\ Len(pcExpression) = 5
     /\ pcExpression[2] \in BinaryOps
     /\ pcExpression[4] \in BinaryOps
     /\ \A j \in {1, 3, 5} : IsPredicate(pcExpression[j], LastParse.reg))
    => \A x \in Candidates :
           Gives(evals[1][x],
                 Connect(pcExpression[4],
                         Connect(pcExpression[2],
                                 OperandHolds(pcExpression[1], LastParse.reg, x),
                                 OperandHolds(pcExpression[3], LastParse.reg, x)),
                         OperandHolds(pcExpression[5], LastParse.reg, x)))

\* "A || B && C" parsed and evaluated; for a candidate that A accepts and C
\* rejects the answer is false, where `&&` binding tighter would give true.
C18_Witness ==
    /\ pcExpression = <<Bare("A"), OrToken, Bare("B"), AndToken, Bare("C")>>
    /\ Len(evals) > 0
    /\ LastParse.reg = FullRegistry
    /\ Gives(evals[1][[a |-> TRUE, b |-> FALSE, c |-> FALSE, name |-> "b"]], FALSE)

\* The answers of a parse outcome over the candidates.
Answers(out) == [x \in Candidates |-> Apply(out.v, x)]

C20_StarSelectsEverything ==
    (/\ lastMatch.op \in {"filter", "matches"}
     /\ selector.expression.text = "*")
    => lastMatch.out = Bool(TRUE)

\* C21: a selector whose runtime flag is false and whose text is not `*`,
\* asked matches(method, type) without runtime arguments, answers what the
\* attribute test answers for the method; the type plays no part.
C21_StaticMatchesIsTheAttributeTest ==
    (/\ lastMatch.op = "matches"
     /\ ~selector.isStaticPointcut
     /\ selector.expression.text # "*"
     /\ lastMatch.args = <<>>)
    => lastMatch.out = matchPointcut(selector, lastMatch.method)

\* C22: with the runtime flag true, filter(type) of `|Name` is true iff the
\* type is named Name, and filter(type) of `ns|Name` is true iff the type is
\* named Name and ns is `*` or the namespace metadata of the type.
C22_TypeSelectorsMatchByName ==
    (/\ lastMatch.op = "filter"
     /\ selector.isStaticPointcut
     /\ selector.expression.nsForm # "none")
    => LET e == selector.expression
           named == e.typeName = lastMatch.type
           spaced == e.namespace = "*" \/ e.namespace = GetMetadata("namespace", lastMatch.type)
       IN  lastMatch.out = Bool(IF e.nsForm = "nons" THEN named ELSE named /\ spaced)

\* C23: a RegexpMethodPointcut can be made of any pattern list, the literal
\* `*` included; once made, matches answers true whenever one of its patterns
\* tests the method name or one of its sources is `*`.
C23_RegexpMatchesByMethodName ==
    /\ regexpPointcut.made # "throw"
    /\ (/\ lastRegexpMatch.op = "matches"
        /\ \/ \E i \in 1..Len(regexpPointcut.patterns) :
                 RegExpTest(regexpPointcut.patterns[i], lastRegexpMatch.method)
           \/ \E i \in 1..Len(regexpPointcut.patterns) : regexpPointcut.patterns[i] = "*")
       => lastRegexpMatch.out = Bool(TRUE)

\* C24: after an execute, the flag is set exactly when the advice was
\* invoked in it.  When the class filter accepts the owner type, or else the
\* method matcher accepts, the advice was invoked once, on the join point's
\* target with the arguments given, and its outcome is the outcome of
\* execute; otherwise it was not invoked and undefined is returned.
C24_ExecuteSetsTheFlagIffItInvokes ==
    lastExecute.called =>
        LET a == advisor.a
            accepts == (a.isClass /\ a.flt) \/ (a.isMethod /\ a.exe)
        IN  /\ advisor.executed <=> Len(lastExecute.calls) > 0
            /\ accepts =>
                   /\ lastExecute.calls = <<[scope |-> lastExecute.joinPoint.o,
                                             args |-> lastExecute.args]>>
                   /\ lastExecute.out = a.out
            /\ ~accepts =>
                   /\ lastExecute.calls = <<>>
                   /\ lastExecute.out = Ret(Undef)

\* An advisor whose filter rejects and whose method matcher accepts has
\* executed with arguments.
C24_Witness ==
    /\ lastExecute.called
    /\ advisor.a.isClass /\ ~advisor.a.flt /\ advisor.a.isMethod /\ advisor.a.exe
    /\ advisor.executed
    /\ lastExecute.args = <<Num(1)>>

\* The before advices of the outermost wrapper of the last call have run:
\* none of them, and no parameter-name discovery, ended abruptly.
TopAdvicesRan ==
    /\ TopEvents("discovery") = {}
    /\ \A p \in TopEvents("advEnd") : lastCall.log[p].x.k # "throw"

\* The positions at which an advisor of the outermost wrapper fired.
TopAdvisorFirings == {p \in TopEvents("advisor") : lastCall.log[p].i # 0}

\* C25: in a call of a Before wrapper whose before advices have run, a
\* firing advisor replaces the original (the original is not invoked and the
\* caller gets the advisor's outcome); when no advisor fires the original is
\* invoked exactly once and the caller gets its outcome.
C25_FiringAdvisorReplacesOriginal ==
    (IsCallOf("before") /\ TopAdvicesRan) =>
        IF TopAdvisorFirings # {}
        THEN /\ TopEvents("origBegin") = {}
             /\ \A p \in TopAdvisorFirings : lastCall.out = lastCall.log[p].x
        ELSE /\ Cardinality(TopEvents("origBegin")) = 1
             /\ \A p \in TopEvents("origEnd") : lastCall.out = lastCall.log[p].x

\* A before advice ran and an advisor fired in the same call.
C25_Witness ==
    /\ IsCallOf("before")
    /\ TopAdvicesRan
    /\ TopEvents("advEnd") # {}
    /\ TopAdvisorFirings # {}
    /\ lastCall.out = Ret(Num(99))

\* A selected advisor whose matcher rejected at execute time: the original ran.
C25_WitnessRejected ==
    /\ IsCallOf("before")
    /\ TopAdvicesRan
    /\ TopEvents("advisor") # {}
    /\ TopAdvisorFirings = {}
    /\ Cardinality(TopEvents("origBegin")) = 1

\* C26: the array built for an advice binds joinPoint to the JoinPoint of
\* the call for every kind, result to the returned value for afterReturning
\* and around, error to the raised exception for afterThrowing, and every
\* other name to the actual argument at the name's position.
C26_AdviceArgumentsBindByName ==
    adviceCall.built =>
        /\ Len(adviceCall.adviceArgs) = Len(adviceCall.names)
        /\ \A i \in 1..Len(adviceCall.names) :
               LET name == adviceCall.names[i]
                   value == adviceCall.adviceArgs[i]
               IN  IF name = "joinPoint"
                   THEN value = JoinPoint("A", "n", adviceCall.args)
                   ELSE IF name = "result" /\ adviceCall.kind \in {"afterReturning", "around"}
                   THEN value = Num(10)
                   ELSE IF name = "error" /\ adviceCall.kind = "afterThrowing"
                   THEN value = Err("E")
                   ELSE value = ArgAt(adviceCall.args, IndexOf(adviceCall.names, name))

\* The positions at which an advice fired by the outermost wrapper of the
\* last call ended abruptly.
TopAdviceThrows == {p \in TopEvents("advEnd") : lastCall.log[p].x.k = "throw"}

\* C27: when an advice fired by a wrapper of any kind ends abruptly with X,
\* the call ends abruptly with X at its caller; a before wrapper has then
\* not invoked the original, and an afterThrowing wrapper hands X, not the
\* original's error, to the caller.
C27_AdviceExceptionReachesCaller ==
    (lastCall.called /\ lastCall.fn.w # 0) =>
        \A p \in TopAdviceThrows :
            /\ lastCall.out = lastCall.log[p].x
            /\ IsCallOf("before") => TopEvents("origBegin") = {}

\* An afterThrowing advice raised AE while handling the original's E.
C27_Witness ==
    /\ IsCallOf("afterThrowing")
    /\ \E q \in TopEvents("origEnd") : lastCall.log[q].x = Throw(Err("E"))
    /\ \E p \in TopAdviceThrows : lastCall.log[p].x = Throw(Err("AE"))
    /\ lastCall.out = Throw(Err("AE"))

\* C28: getParameterNames answers with the names of the 'argNames' metadata
\* when there is one, else with the reflective answer when the method
\* declares parameters and carries 'design:paramtypes', and in every other
\* case raises the TypeError "Unable to determine parameter names".
C28_FirstKnownAnswerWinsElseUnresolvable ==
    lastNames.called =>
        LET fn == proto[lastNames.c][lastNames.k]
        IN  IF argNamesMeta # <<>> THEN lastNames.out = Names(argNamesMeta)
            ELSE IF FnLength(fn) > 0 /\ paramTypes.has
            THEN lastNames.out = Names(paramTypes.names)
            ELSE lastNames.out = Raised(Err("TypeError: Unable to determine parameter names"))

\* C29: ProxyFactory.dispose(), from any state of the factory, leaves both
\* lists empty and the four flags false, has revoked the stored revocable
\* proxy and dropped it, and leaves a factory whose addAdvice and
\* addInterface pass the frozen check.
C29_FactoryDisposeResets ==
    [][FactoryDispose =>
        /\ factory'.advices = <<>>
        /\ factory'.interfaces = <<>>
        /\ ~factory'.useCglib /\ ~factory'.useAspectJ
        /\ ~factory'.frozen /\ ~factory'.exposeProxy
        /\ factory'.revocableProxy = 0
        /\ factory.revocableProxy # 0 => handles'[factory.revocableProxy].revoked
        /\ assertNotFrozen(factory').k = "ret"]_vars

\* A dispose has just revoked the stored revocable proxy of the factory.
C29_Witness ==
    /\ lastOp.op = "dispose"
    /\ \E h \in 1..Len(handles) : handles[h].revoked
    /\ Listed(factory) = 0
    /\ factory.revocableProxy = 0

\* s is an initial part of t.
IsPrefix(s, t) == Len(s) <= Len(t) /\ \A i \in 1..Len(s) : s[i] = t[i]

\* c is the class d or extends it.
RECURSIVE Extends(_, _)
Extends(c, d) == c = d \/ (Superclass(c) # "" /\ Extends(Superclass(c), d))

\* C30: in every step (an installation, a call, a boot step, a dispose) the
\* bucket of every class and kind keeps what it held as its initial part; a
\* step that installs one advice appends exactly the record {pointcut,
\* method} to the bucket of its kind on its class, and leaves alone the
\* buckets of the other kinds and those of the classes that do not extend
\* that class.
C30_RegistryIsAppendOnly ==
    [][/\ \A c \in Classes, kind \in Kinds :
            IsPrefix(Registry(bucket, c, kind), Registry(bucket', c, kind))
       /\ Len(wrappers') = Len(wrappers) + 1 =>
            LET w == wrappers'[Len(wrappers')]
            IN  \A c \in Classes, kind \in Kinds :
                    Registry(bucket', c, kind) =
                        IF c = w.c /\ kind = w.kind
                        THEN Append(Registry(bucket, c, kind),
                                    [pointcut |-> w.pointcut, method |-> proto[w.c][w.k]])
                        ELSE IF kind = w.kind /\ Extends(c, w.c)
                        THEN Registry(bucket', c, kind)
                        ELSE Registry(bucket, c, kind)]_vars

\* C31: once the weave step has applied an advice decorator for a method of
\* an aspect class, the method found on the prototype of that class is the
\* wrapper, and a later call of that method enters a wrapper (it reads the
\* registry and runs advices and original by the wrapper's protocol).
C31_WovenMethodIsTheWrapper ==
    \A i \in 1..Len(wrappers) :
        /\ proto[wrappers[i].c][wrappers[i].k].w # 0
        /\ (/\ lastCall.called
            /\ lastCall.fn.c = wrappers[i].c
            /\ lastCall.fn.k = wrappers[i].k)
           => /\ lastCall.fn.w # 0
              /\ \E p \in 1..Len(lastCall.log) : lastCall.log[p].e = "origBegin"

\* C32: every advice the weave step has woven got the argument names its
\* config declares: the wrapper made for it resolves its parameter names to
\* the pieces of the config's argNames, as the decorator applied directly
\* with that string does, whatever the returning and throwing fields are.
C32_WovenAdviceGetsItsArgNames ==
    \A q \in 1..Len(processed) :
        (processed[q].weaved /\ processed[q].out.k = "ret") =>
            LET cfg == boot.input[processed[q].pos]
            IN  \A j \in 1..Len(cfg.advices) :
                    cfg.advices[j].argNames # <<>> =>
                        \E i \in 1..Len(wrappers) :
                            /\ wrappers[i].c = cfg.ref
                            /\ wrappers[i].k = cfg.advices[j].method
                            /\ wrappers[i].kind = cfg.advices[j].type
                            /\ ParamNames(wrappers[i]) = Names(cfg.advices[j].argNames)

\* The only dispose so far is the one that followed the finished first boot.
OneDisposeBetween ==
    /\ firstBoot.taken
    /\ firstBoot.disposes = 1

\* C33: when a boot is followed by a dispose and by a boot of the same
\* configuration, both boots resolving, the second boot leaves the advice
\* registry of every class, the live proxy set and the named-pointcut
\* registry as the first boot had left them.
C33_BootDisposeBootIsOneBoot ==
    (/\ firstBoot.taken
     /\ boots = 2
     /\ boot.st = "done"
     /\ boot.input = firstBoot.input
     /\ boot.globals = firstBoot.globals
     /\ flags = firstBoot.flags
     /\ firstBoot.completion.st = "resolved"
     /\ completion.st = "resolved"
     /\ OneDisposeBetween)
    => /\ bucket = firstBoot.bucket
       /\ proxies = firstBoot.proxies
       /\ pointcuts = firstBoot.pointcuts

\* C34: while no dispose has run, the live proxy set of a boot holds exactly
\* one factory for each aspect whose step ended without an error, in weave
\* order, and none for an aspect whose import, advice registration or weave
\* raised.
C34_LiveSetHoldsTheWovenAspects ==
    (boots > 0 /\ firstBoot.disposes = 0) =>
        LET ok == SelectSeq(processed, LAMBDA q : q.out.k = "ret")
        IN  /\ Len(proxies) = Len(ok)
            /\ \A i \in 1..Len(ok) : proxies[i].target = ok[i].ref

\* The predicates a value returned by parse is built from.
RECURSIVE Leaves(_)
Leaves(p) ==
    CASE p.k \in {"user", "prim"} -> {p}
      [] p.k \in {"and", "or"} -> Leaves(p.l[1]) \cup Leaves(p.r[1])
      [] OTHER -> {}

\* C35: parse raises an error or returns a callable predicate built from all
\* operand tokens: it never returns an undefined value and never drops an
\* operand, whatever the sequence of operators, registered names and
\* primitives.
C35_ParseRaisesOrUsesEveryOperand ==
    \A i \in 1..Len(parses) :
        parses[i].out.k = "ret" =>
            LET tokens == Split(pcExpression)
            IN  /\ parses[i].out.v.k \in {"user", "prim", "and", "or"}
                /\ \A j \in 1..Len(tokens) :
                       tokens[j].text \notin {"&&", "||", "!"} =>
                           ParseToken(tokens[j], parses[i].reg).v \in Leaves(parses[i].out.v)

\* The ids a list of pointcut configurations declares.
IdsOf(pcs) == {pcs[i].id : i \in 1..Len(pcs)}

\* C36: aspect-local pointcuts are local.  While no dispose has run, an
\* aspect whose first advice refers to an id that neither the configuration
\* nor the aspect itself declares fails its weave with the reference error
\* about that id, whatever an aspect woven before it declared; and an advice
\* that refers to a global id its own aspect does not redeclare is installed
\* with the expression of the global declaration.
C36_AspectLocalPointcutsAreLocal ==
    firstBoot.disposes = 0 =>
        \A q \in 1..Len(processed) :
            processed[q].weaved =>
                LET cfg == boot.input[processed[q].pos]
                    own == IdsOf(cfg.pointcuts)
                    global == IdsOf(boot.globals)
                IN  \A j \in 1..Len(cfg.advices) :
                        LET ac == cfg.advices[j]
                        IN  ac.pointcut = "" =>
                                /\ (j = 1 /\ ac.pointcutRef \notin own \cup global) =>
                                       processed[q].out =
                                           Throw(ErrAbout("ReferenceError: Pointcut not found",
                                                          ac.pointcutRef))
                                /\ (/\ ac.pointcutRef \in global \ own
                                    /\ processed[q].out.k = "ret") =>
                                       \E i \in 1..Len(wrappers) :
                                           /\ wrappers[i].c = cfg.ref
                                           /\ wrappers[i].k = ac.method
                                           /\ wrappers[i].kind = ac.type
                                           /\ wrappers[i].pointcut =
                                                  Register(NoPointcuts, boot.globals)[ac.pointcutRef]

\* C37: when a boot completes, every factory it created for an aspect whose
\* step ended without an error is in the live set and carries the four
\* policy flags of the configuration of that boot, also when a dispose ran
\* while the boot was suspended on an import.
C37_BootKeepsItsFlagsAndFactories ==
    [][(boot.st = "running" /\ boot'.st = "done") =>
           \A q \in 1..Len(processed') :
               processed'[q].out.k = "ret" =>
                   \E p \in 1..Len(proxies') :
                       /\ proxies'[p].target = processed'[q].ref
                       /\ proxies'[p].useCglib = boot.flags.useCglib
                       /\ proxies'[p].useAspectJ = boot.flags.useAspectJ
                       /\ proxies'[p].frozen = boot.flags.frozen
                       /\ proxies'[p].exposeProxy = boot.flags.exposeProxy]_vars

\* C38: a call of a wrapped method invokes only advice records installed
\* for that method: every record a wrapper of method m starts to run was
\* installed by a decorator applied to m, also when another method of the
\* class is decorated with the same kind and the same pointcut text.
C38_CallFiresOnlyItsOwnRecords ==
    lastCall.called =>
        \A p \in 1..Len(lastCall.log) :
            lastCall.log[p].e = "advBegin" =>
                LET w == wrappers[lastCall.log[p].w]
                IN  Registry(bucket, w.c, w.kind)[lastCall.log[p].i].method.k = w.k

\* C39: the join point of a call is an immutable snapshot shared by the
\* advices of the call: whatever an advice does to the sequence
\* joinPoint.args returned, every later advice of the call sees the arguments
\* the call was made with and the original method receives them.
C39_JoinPointIsAnImmutableSnapshot ==
    /\ \A i \in 1..Len(frame.seen) : frame.seen[i] = frame.given
    /\ frame.st = "done" => frame.received = frame.given

\* The configuration of a factory: target, both lists, the four flags.
Configuration(f) ==
    <<f.target, f.advices, f.interfaces, f.useCglib, f.useAspectJ, f.frozen, f.exposeProxy>>

\* C40: while a factory is frozen no operation other than dispose() changes
\* its configuration: a flag setter or the `proxy` setter applied to a frozen
\* factory raises or leaves target, advice list, interface list and flags as
\* they were.
C40_FrozenFactoryChangesOnlyByDispose ==
    [][(factory.frozen /\ lastOp'.op # "dispose") =>
           \/ lastOp'.out.k = "throw"
           \/ Configuration(factory') = Configuration(factory)]_vars
====
